---- MODULE Spec2Model ----
(***************************************************************************)
(* Model of the quoting and discount rating pipeline:                      *)
(*   routers/basket/ratebasket.py   (rate_basket and its helpers)          *)
(*   routers/basket/__init__.py     (add_to_basket, delete_basket_item)    *)
(*   routers/product_assignment.py  (product_assignment)                   *)
(*   routers/rate_request.py        (rate_request)                         *)
(*                                                                         *)
(* Conventions.  Python None of a string field is the string NoneStr; an   *)
(* optional number is <<>> (None) or <<n>>.  Strings that the code         *)
(* transforms (upper, lower, normalize) are sequences of one-character     *)
(* strings, so that the transformation is computed; all other strings are  *)
(* atomic.  Money is an integer number of pence; a float amount of major   *)
(* units is an integer number of thousandths (mils).                       *)
(***************************************************************************)
EXTENDS Integers, Sequences, FiniteSets, TLC

VARIABLES
    rules,                \* BundleDiscountRules: the active rules, in store order
    basket,               \* Basket_Quotes: the basket document
    resp,                 \* the last response of rate_basket
    product_assignments,  \* ProductAssignment: the documents, in store order
    assign_resp,          \* the last response of product_assignment
    assign_error_log,     \* Error_Log_ProductAssignment
    ratings,              \* Rating: the documents, in store order
    rate_resp,            \* the last response of rate_request
    rate_error_log,       \* Error_Log_RateRequest
    clock,                \* the date datetime.utcnow() reads
    fn_input,             \* the arguments of a helper called on its own
    fn_output,            \* what the helper returned, <<>> before the call
    quotes,               \* Quotes: the quote documents
    created,              \* Basket_Quotes: the baskets add_to_basket created
    store_resp,           \* the last response of add_to_basket / delete_basket_item
    calls                 \* the add_to_basket requests in flight, step by step

basketVars == <<rules, basket, resp>>

assignVars == <<product_assignments, assign_resp, assign_error_log>>

rateVars == <<ratings, rate_resp, rate_error_log>>

callVars == <<clock, fn_input, fn_output>>

storeVars == <<quotes, created, store_resp, calls>>

vars == <<basketVars, assignVars, rateVars, callVars, storeVars>>

(***************************************************************************)
(* Generic helpers standing for Python built-ins.                          *)
(***************************************************************************)
NoneStr == "<none>"

NoneText == <<"<none>">>

Max(a, b) == IF a >= b THEN a ELSE b

Min(a, b) == IF a <= b THEN a ELSE b

RECURSIVE Sum(_)
Sum(s) == IF s = <<>> THEN 0 ELSE Head(s) + Sum(Tail(s))

\* The order of Python tuples of two integers.
KeyLess(a, b) == a[1] < b[1] \/ (a[1] = b[1] /\ a[2] < b[2])

\* sorted(s, key=...), keys[i] being the key of s[i], a pair of integers:
\* ascending and stable.
StableSortBy(s, keys) ==
    LET n == Len(s)
        rank(i) == Cardinality({j \in 1..n :
                       \/ KeyLess(keys[j], keys[i])
                       \/ (~KeyLess(keys[i], keys[j]) /\ j < i)})
    IN  [p \in 1..n |-> s[CHOOSE i \in 1..n : rank(i) = p - 1]]

\* sorted(s, key=..., reverse=True): descending, equal keys in their
\* original order.
StableSortByReverse(s, keys) ==
    LET n == Len(s)
        rank(i) == Cardinality({j \in 1..n :
                       \/ KeyLess(keys[i], keys[j])
                       \/ (~KeyLess(keys[j], keys[i]) /\ j < i)})
    IN  [p \in 1..n |-> s[CHOOSE i \in 1..n : rank(i) = p - 1]]

\* int(round(x)) of the non-negative rational n/d: Python 3 rounds half to even.
RoundHalfEven(n, d) ==
    LET q == n \div d
        r == n % d
    IN  IF 2 * r < d THEN q
        ELSE IF 2 * r > d THEN q + 1
        ELSE IF q % 2 = 0 THEN q ELSE q + 1

UpperChar(c) ==
    CASE c = "a" -> "A" [] c = "b" -> "B" [] c = "c" -> "C" [] c = "e" -> "E"
      [] c = "g" -> "G" [] c = "m" -> "M" [] c = "p" -> "P" [] c = "r" -> "R"
      [] c = "u" -> "U" [] OTHER -> c

LowerChar(c) ==
    CASE c = "A" -> "a" [] c = "B" -> "b" [] c = "C" -> "c" [] c = "D" -> "d"
      [] c = "E" -> "e" [] c = "F" -> "f" [] c = "G" -> "g" [] c = "H" -> "h"
      [] c = "I" -> "i" [] c = "J" -> "j" [] c = "K" -> "k" [] c = "L" -> "l"
      [] c = "M" -> "m" [] c = "N" -> "n" [] c = "O" -> "o" [] c = "P" -> "p"
      [] c = "Q" -> "q" [] c = "R" -> "r" [] c = "S" -> "s" [] c = "T" -> "t"
      [] c = "U" -> "u" [] c = "V" -> "v" [] c = "W" -> "w" [] c = "X" -> "x"
      [] c = "Y" -> "y" [] c = "Z" -> "z" [] OTHER -> c

str_upper(s) == [i \in DOMAIN s |-> UpperChar(s[i])]

str_lower(s) == [i \in DOMAIN s |-> LowerChar(s[i])]

(***************************************************************************)
(* ratebasket.py helpers.                                                  *)
(***************************************************************************)
as_int(x, default) == IF x = <<>> THEN default ELSE x[1]

\* Mutant: no fallback to rounded_price when the pence field is absent.
price_pence_no_fallback(item) ==
    IF item.rounded_price_pence # <<>> THEN as_int(item.rounded_price_pence, 0) ELSE 0

price_pence(item) ==
    IF item.rounded_price_pence # <<>>
    THEN as_int(item.rounded_price_pence, 0)
    ELSE IF item.rounded_price # <<>>
         THEN RoundHalfEven(item.rounded_price[1], 10)
         ELSE 0

\* Mutant: the comparison is made without folding the case.
apply_transform_identity(transform, x) == x

\* transform(x) for the transforms _match_applies_to passes.
apply_transform(transform, x) ==
    CASE transform = "str.upper" -> str_upper(x)
      [] transform = "str.lower" -> str_lower(x)
      [] OTHER -> x

in_list_or_empty(val, arr, transform) ==
    IF arr = {} THEN TRUE
    ELSE IF val = NoneText THEN FALSE
    ELSE apply_transform(transform, val) \in {apply_transform(transform, x) : x \in arr}

in_list_or_empty_plain(val, arr) ==
    IF arr = {} THEN TRUE
    ELSE IF val = NoneStr THEN FALSE
    ELSE val \in arr

match_applies_to(rule, item) ==
    LET applies     == rule.appliesTo
        currency_ok == in_list_or_empty(item.currency, applies.currency, "str.upper")
        locale_ok   == in_list_or_empty_plain(item.locale, applies.locale)
        client_ok   == in_list_or_empty(item.client, applies.client, "str.lower")
        product_ok  == IF applies.productIds = {} THEN TRUE
                       ELSE item.product_id \in applies.productIds
        category_ok == IF applies.categoryGroups = {} THEN TRUE
                       ELSE item.category \in applies.categoryGroups
        mode_ok     == IF applies.mode \in {NoneStr, "any"} THEN TRUE
                       ELSE item.mode = applies.mode
    IN  currency_ok /\ locale_ok /\ client_ok /\ product_ok /\ category_ok /\ mode_ok

\* Mutant: sameTermRequired is not read, the term is left out of the key.
group_key_without_term(item, constraints) ==
    LET key == (IF constraints.sameModeRequired THEN <<item.mode>> ELSE <<>>)
               \o (IF constraints.sameProductIdRequired THEN <<item.product_id>> ELSE <<>>)
               \o (IF constraints.sameCategoryRequired THEN <<item.category>> ELSE <<>>)
    IN  IF key # <<>> THEN key ELSE <<"ALL">>

group_key(item, constraints) ==
    LET key == (IF constraints.sameModeRequired THEN <<item.mode>> ELSE <<>>)
               \o (IF constraints.sameTermRequired THEN <<item.poc>> ELSE <<>>)
               \o (IF constraints.sameProductIdRequired THEN <<item.product_id>> ELSE <<>>)
               \o (IF constraints.sameCategoryRequired THEN <<item.category>> ELSE <<>>)
    IN  IF key # <<>> THEN key ELSE <<"ALL">>

\* groups.setdefault(k, []).append(it): the groups in order of first
\* appearance, each with its items in basket order.
group_items(items, constraints) ==
    LET n      == Len(items)
        key(i) == group_key(items[i], constraints)
        firsts == SelectSeq([i \in 1..n |-> i],
                            LAMBDA i : \A j \in 1..(i - 1) : key(j) # key(i))
    IN  [g \in 1..Len(firsts) |->
            [key   |-> key(firsts[g]),
             items |-> SelectSeq(items,
                          LAMBDA it : group_key(it, constraints) = key(firsts[g]))]]

prices_of(items) == [i \in 1..Len(items) |-> price_pence(items[i])]

(***************************************************************************)
(* TIERED_PERCENT (ratebasket.py, _apply_tiered_percent).                  *)
(***************************************************************************)
\* Mutant: the satisfied tier with the highest minItems decides, whatever
\* its percentOff.
highest_percent_last_tier(tiers_sorted, count, percent) ==
    LET ok == SelectSeq(tiers_sorted, LAMBDA t : count >= t.minItems)
    IN  IF ok = <<>> THEN percent ELSE ok[Len(ok)].percentOff

\* for t in tiers_sorted: if count >= minItems: percent = max(percent, percentOff)
RECURSIVE highest_percent(_, _, _)
highest_percent(tiers_sorted, count, percent) ==
    IF tiers_sorted = <<>> THEN percent
    ELSE LET t == Head(tiers_sorted)
         IN  highest_percent(Tail(tiers_sorted), count,
                 IF count >= t.minItems THEN Max(percent, t.percentOff) ELSE percent)

\* One pass of the loop over groups: the amount d the group adds.
tiered_group_discount(gitems, tiers_sorted, apply_base) ==
    LET count   == Len(gitems)
        percent == highest_percent(tiers_sorted, count, 0)
    IN  IF percent <= 0 THEN 0
        ELSE IF apply_base # "subtotal" THEN 0
        ELSE (Sum(prices_of(gitems)) * percent) \div 100

apply_tiered_percent(rule, items) ==
    LET constraints  == rule.constraints
        params       == rule.ruleParams
        cap          == params.capAmountPence
        groups       == group_items(items, constraints)
        tiers_sorted == StableSortBy(params.tiers,
                            [i \in 1..Len(params.tiers) |-> <<params.tiers[i].minItems, 0>>])
        total        == Sum([g \in 1..Len(groups) |->
                              tiered_group_discount(groups[g].items, tiers_sorted,
                                                    params.applyBase)])
    IN  IF cap > 0 /\ total > cap THEN cap ELSE total

(***************************************************************************)
(* FIXED_PRICE_BUNDLE (ratebasket.py, _apply_fixed_price_bundle).          *)
(***************************************************************************)
\* The normalised tier list, largest bundleSize first; <<>> stands for the
\* two early returns on an invalid configuration.
bundle_tiers(params) ==
    IF params.bundles # <<>>
    THEN LET tiers == SelectSeq(params.bundles,
                          LAMBDA b : b.bundleSize > 0 /\ b.fixedPricePence > 0)
         IN  StableSortByReverse(tiers,
                 [i \in 1..Len(tiers) |-> <<tiers[i].bundleSize, 0>>])
    ELSE IF params.bundleSize <= 0 \/ params.fixedPricePence <= 0 THEN <<>>
         ELSE <<[bundleSize      |-> Max(1, params.bundleSize),
                 fixedPricePence |-> params.fixedPricePence,
                 capBundles      |-> params.capBundles]>>

smallest_bundle(tiers) ==
    CHOOSE m \in {tiers[i].bundleSize : i \in 1..Len(tiers)} :
        \A i \in 1..Len(tiers) : m <= tiers[i].bundleSize

\* The positive prices left in basket order.
sorted_prices_in_basket_order(gitems) ==
    SelectSeq(prices_of(gitems), LAMBDA p : p > 0)

\* prices = sorted([p for p in prices if p > 0], reverse=True)
sorted_prices(gitems) ==
    LET prices == SelectSeq(prices_of(gitems), LAMBDA p : p > 0)
    IN  StableSortByReverse(prices, [i \in 1..Len(prices) |-> <<prices[i], 0>>])

greedy_start(tiers) ==
    [idx        |-> 0,
     caps_used  |-> [i \in 1..Len(tiers) |-> 0],
     group_disc |-> 0,
     expl_bits  |-> <<>>,
     progressed |-> FALSE]

\* Mutant: the cap test lets a tier form one bundle more than capBundles.
tier_fits_cap_off_by_one(prices, tiers, st, ti) ==
    LET remaining == Len(prices) - st.idx
        bs        == tiers[ti].bundleSize
        cap       == tiers[ti].capBundles
    IN  /\ ~(remaining < bs)
        /\ ~(cap > 0 /\ st.caps_used[ti] > cap)

\* Whether the for loop over tiers consumes a bundle of tier ti at this cursor.
tier_fits(prices, tiers, st, ti) ==
    LET remaining == Len(prices) - st.idx
        bs        == tiers[ti].bundleSize
        cap       == tiers[ti].capBundles
        block     == SubSeq(prices, st.idx + 1, Min(st.idx + bs, Len(prices)))
    IN  /\ ~(remaining < bs)
        /\ ~(cap > 0 /\ st.caps_used[ti] >= cap)
        /\ ~(Len(block) < bs)

\* Mutant: a bundle is formed and the cursor is left where it was.
greedy_pass_cursor_kept(prices, tiers, smallest, st) ==
    LET remaining == Len(prices) - st.idx
        fits      == {ti \in 1..Len(tiers) : tier_fits(prices, tiers, st, ti)}
    IN  IF remaining < smallest \/ fits = {}
        THEN [st EXCEPT !.progressed = FALSE]
        ELSE LET ti    == CHOOSE t \in fits : \A u \in fits : t <= u
                 bs    == tiers[ti].bundleSize
                 fp    == tiers[ti].fixedPricePence
                 block == SubSeq(prices, st.idx + 1, st.idx + bs)
                 disc  == Max(0, Sum(block) - fp)
             IN  [idx        |-> st.idx,
                  caps_used  |-> [st.caps_used EXCEPT ![ti] = @ + 1],
                  group_disc |-> st.group_disc + disc,
                  expl_bits  |-> Append(st.expl_bits,
                                    [tier |-> ti, start |-> st.idx, size |-> bs,
                                     block |-> block, fixed |-> fp, disc |-> disc]),
                  progressed |-> TRUE]

\* Mutant: the last tier in list order that fits forms the bundle.
greedy_pass_smallest_first(prices, tiers, smallest, st) ==
    LET remaining == Len(prices) - st.idx
        fits      == {ti \in 1..Len(tiers) : tier_fits(prices, tiers, st, ti)}
    IN  IF remaining < smallest \/ fits = {}
        THEN [st EXCEPT !.progressed = FALSE]
        ELSE LET ti    == CHOOSE t \in fits : \A u \in fits : t >= u
                 bs    == tiers[ti].bundleSize
                 fp    == tiers[ti].fixedPricePence
                 block == SubSeq(prices, st.idx + 1, st.idx + bs)
                 disc  == Max(0, Sum(block) - fp)
             IN  [idx        |-> st.idx + bs,
                  caps_used  |-> [st.caps_used EXCEPT ![ti] = @ + 1],
                  group_disc |-> st.group_disc + disc,
                  expl_bits  |-> Append(st.expl_bits,
                                    [tier |-> ti, start |-> st.idx, size |-> bs,
                                     block |-> block, fixed |-> fp, disc |-> disc]),
                  progressed |-> TRUE]

\* One pass of `while True`: the first tier in list order that fits forms a
\* bundle, else the loop is left (progressed stays False).
greedy_pass(prices, tiers, smallest, st) ==
    LET remaining == Len(prices) - st.idx
        fits      == {ti \in 1..Len(tiers) : tier_fits(prices, tiers, st, ti)}
    IN  IF remaining < smallest \/ fits = {}
        THEN [st EXCEPT !.progressed = FALSE]
        ELSE LET ti    == CHOOSE t \in fits : \A u \in fits : t <= u
                 bs    == tiers[ti].bundleSize
                 fp    == tiers[ti].fixedPricePence
                 block == SubSeq(prices, st.idx + 1, st.idx + bs)
                 s     == Sum(block)
                 disc  == Max(0, s - fp)
             IN  [idx        |-> st.idx + bs,
                  caps_used  |-> [st.caps_used EXCEPT ![ti] = @ + 1],
                  group_disc |-> st.group_disc + disc,
                  expl_bits  |-> Append(st.expl_bits,
                                    [tier |-> ti, start |-> st.idx, size |-> bs,
                                     block |-> block, fixed |-> fp, disc |-> disc]),
                  progressed |-> TRUE]

RECURSIVE greedy_loop(_, _, _, _)
greedy_loop(prices, tiers, smallest, st) ==
    LET nxt == greedy_pass(prices, tiers, smallest, st)
    IN  IF nxt.progressed THEN greedy_loop(prices, tiers, smallest, nxt) ELSE nxt

\* Mutant: the first tier that fits is kept, not the one with the largest discount.
best_single_first_fit(prices, tiers, best_disc) ==
    LET fit == SelectSeq(tiers, LAMBDA t : ~(Len(prices) < t.bundleSize))
    IN  IF fit = <<>> THEN best_disc
        ELSE Max(0, Sum(SubSeq(prices, 1, fit[1].bundleSize)) - fit[1].fixedPricePence)

\* The non-repeatable branch: for t in tiers: ... if disc > best_disc: best_disc = disc
RECURSIVE best_single(_, _, _)
best_single(prices, tiers, best_disc) ==
    IF tiers = <<>> THEN best_disc
    ELSE LET t  == Head(tiers)
             bs == t.bundleSize
         IN  IF Len(prices) < bs
             THEN best_single(prices, Tail(tiers), best_disc)
             ELSE LET disc == Max(0, Sum(SubSeq(prices, 1, bs)) - t.fixedPricePence)
                  IN  best_single(prices, Tail(tiers),
                                  IF disc > best_disc THEN disc ELSE best_disc)

\* Mutant: the size test looks at the smallest bundle only.
group_qualifies_without_min_items(gitems, tiers, min_items_req) ==
    /\ ~(Len(gitems) < smallest_bundle(tiers))
    /\ sorted_prices(gitems) # <<>>

\* Whether the loop over groups goes past its two `continue`s for this group.
group_qualifies(gitems, tiers, min_items_req) ==
    /\ ~(Len(gitems) < Max(min_items_req, smallest_bundle(tiers)))
    /\ sorted_prices(gitems) # <<>>

\* One pass of the loop over groups: the group's group_disc.
bundle_group_discount(gitems, tiers, min_items_req, repeatable) ==
    LET prices == sorted_prices(gitems)
    IN  IF ~group_qualifies(gitems, tiers, min_items_req) THEN 0
        ELSE IF repeatable
        THEN greedy_loop(prices, tiers, smallest_bundle(tiers),
                         greedy_start(tiers)).group_disc
        ELSE best_single(prices, tiers, 0)

apply_fixed_price_bundle(rule, items) ==
    LET constraints == rule.constraints
        params      == rule.ruleParams
        tiers       == bundle_tiers(params)
        groups      == group_items(items, constraints)
    IN  IF tiers = <<>> THEN 0
        ELSE Sum([g \in 1..Len(groups) |->
                    bundle_group_discount(groups[g].items, tiers,
                                          constraints.minItems, params.repeatable)])

(***************************************************************************)
(* Rule evaluation and the /basket/rate handler.                           *)
(***************************************************************************)
\* (rtype or "").strip().upper(), on the rule types of the model.
rule_kind(rtype) ==
    CASE rtype \in {"TIERED_PERCENT", "tiered_percent"} -> "TIERED_PERCENT"
      [] rtype \in {"FIXED_PRICE_BUNDLE", " fixed_price_bundle "} -> "FIXED_PRICE_BUNDLE"
      [] rtype = NoneStr -> ""
      [] OTHER -> rtype

matched_items(rule, items) == SelectSeq(items, LAMBDA it : match_applies_to(rule, it))

evaluate_rule(rule, items) ==
    LET matched  == matched_items(rule, items)
        rkind    == rule_kind(rule.ruleType)
        discount == IF rkind = "TIERED_PERCENT"
                    THEN apply_tiered_percent(rule, matched)
                    ELSE IF rkind = "FIXED_PRICE_BUNDLE"
                    THEN apply_fixed_price_bundle(rule, matched)
                    ELSE 0
    IN  [rule_id  |-> rule.id,
         priority |-> rule.priority,
         ruleType |-> IF rule.ruleType = NoneStr THEN "" ELSE rule.ruleType,
         discount |-> discount]

\* Mutant: ties on the discount go to the lower priority.
sort_results_low_priority_first(results) ==
    StableSortBy(results,
        [i \in 1..Len(results) |-> <<-results[i].discount, results[i].priority>>])

\* sorted(results, key=lambda rr: (-rr.discount, -rr.priority))
sort_results(results) ==
    StableSortBy(results,
        [i \in 1..Len(results) |-> <<-results[i].discount, -results[i].priority>>])

\* for r in sorted(...): if r.discount > 0: best = r; break
choose_best(results) ==
    LET sorted == sort_results(results)
        pos    == {i \in 1..Len(sorted) : sorted[i].discount > 0}
    IN  IF pos = {} THEN <<>>
        ELSE <<sorted[CHOOSE i \in pos : \A j \in pos : i <= j]>>

mode_summary(items) ==
    LET modes == {items[i].mode : i \in 1..Len(items)} \ {NoneStr}
    IN  IF Cardinality(modes) = 1 THEN CHOOSE m \in modes : TRUE ELSE "mixed"

\* Lines 312-329 and 353-360: the response computed from the basket read.
rate_response(doc, active_rules) ==
    LET items          == doc.Basket
        subtotal_pence == Sum(prices_of(items))
        results        == [i \in 1..Len(active_rules) |->
                              evaluate_rule(active_rules[i], items)]
        best           == choose_best(results)
        discount       == IF best # <<>> THEN best[1].discount ELSE 0
        final_total    == Max(0, subtotal_pence - discount)
    IN  [status         |-> 200,
         basket_id      |-> doc.id,
         subtotal       |-> subtotal_pence,
         eligible_rules |-> results,
         best           |-> best,
         final_total    |-> final_total]

error_response(code) ==
    [status |-> code, basket_id |-> NoneStr, subtotal |-> 0,
     eligible_rules |-> <<>>, best |-> <<>>, final_total |-> 0]

\* Lines 335-351: the $set of the summary.
summary_of(r, items) ==
    [subtotal    |-> r.subtotal,
     final_total |-> r.final_total,
     discount    |-> IF r.best # <<>> THEN r.best[1].discount ELSE 0,
     best_rule   |-> r.best,
     mode        |-> mode_summary(items)]

\* ObjectId(...) succeeds on these strings.
is_object_id(s) == s \in {"b1", "b2", "b3", "b9"}

\* The response variable of the basket handlers when none of them answered.
NoStoreResponse == [op |-> "none", status |-> 0]

\* basket_collection.find_one({"_id": bid})
find_basket(bid) ==
    IF bid = basket.id THEN <<basket>> ELSE SelectSeq(created, LAMBDA d : d.id = bid)

\* The document doc replaces the stored one of its _id.
put_basket(doc) ==
    /\ basket' = IF doc.id = basket.id THEN doc ELSE basket
    /\ created' = [i \in 1..Len(created) |->
                      IF created[i].id = doc.id THEN doc ELSE created[i]]

\* rate_basket without the try/except round the write of the summary: a
\* failed write ends the request with 500.
RateBasket_write_failure_raised(basket_id) ==
    LET found == IF is_object_id(basket_id) THEN find_basket(basket_id) ELSE <<>>
        r     == IF ~is_object_id(basket_id) THEN error_response(400)
                 ELSE IF found = <<>> THEN error_response(404)
                 ELSE rate_response(found[1], rules)
    IN  /\ store_resp' = NoStoreResponse
        /\ \E write_ok \in BOOLEAN :
              IF r.status = 200 /\ write_ok
              THEN /\ put_basket([found[1] EXCEPT
                                     !.summary = <<summary_of(r, found[1].Basket)>>])
                   /\ resp' = r
              ELSE /\ UNCHANGED <<basket, created>>
                   /\ resp' = IF r.status = 200 THEN error_response(500) ELSE r
        /\ UNCHANGED <<rules, quotes, calls, assignVars, rateVars, callVars>>

\* POST /basket/rate (rate_basket): the read of the basket, the response and
\* the best-effort write of the summary, whose failure is swallowed.
RateBasket(basket_id) ==
    LET found == IF is_object_id(basket_id) THEN find_basket(basket_id) ELSE <<>>
        r     == IF ~is_object_id(basket_id) THEN error_response(400)
                 ELSE IF found = <<>> THEN error_response(404)
                 ELSE rate_response(found[1], rules)
    IN  /\ resp' = r
        /\ store_resp' = NoStoreResponse
        /\ \E write_ok \in BOOLEAN :
              IF r.status = 200 /\ write_ok
              THEN put_basket([found[1] EXCEPT
                                  !.summary = <<summary_of(r, found[1].Basket)>>])
              ELSE UNCHANGED <<basket, created>>
        /\ UNCHANGED <<rules, quotes, calls, assignVars, rateVars, callVars>>

(***************************************************************************)
(* Records of the store, and the bounded families the checks draw from.    *)
(***************************************************************************)
\* The collections and responses of the handlers a specification does not run.
BasketIdle == rules = <<>> /\ basket = <<>> /\ resp = <<>>

AssignIdle == product_assignments = <<>> /\ assign_resp = <<>> /\ assign_error_log = <<>>

RateIdle == ratings = <<>> /\ rate_resp = <<>> /\ rate_error_log = <<>>

StoreIdle ==
    /\ quotes = <<>>
    /\ created = <<>>
    /\ store_resp = NoStoreResponse
    /\ calls = <<>>

\* No helper is called on its own, and the clock reads 2024-07-20.
CallIdle ==
    /\ clock = [year |-> 2024, month |-> 7, day |-> 20]
    /\ fn_input = <<>>
    /\ fn_output = <<>>

Item(pence, price, mode, poc, product_id, category, currency, locale, client) ==
    [deviceId |-> "d1", rounded_price_pence |-> pence, rounded_price |-> price,
     mode |-> mode, poc |-> poc, product_id |-> product_id, category |-> category,
     currency |-> currency, locale |-> locale, client |-> client]

AppliesAll ==
    [currency |-> {}, locale |-> {}, client |-> {}, productIds |-> {},
     categoryGroups |-> {}, mode |-> "any"]

NoConstraints ==
    [sameModeRequired |-> FALSE, sameTermRequired |-> FALSE,
     sameProductIdRequired |-> FALSE, sameCategoryRequired |-> FALSE, minItems |-> 0]

TieredParams(tiers, cap) ==
    [tiers |-> tiers, applyBase |-> "subtotal", capAmountPence |-> cap,
     bundles |-> <<>>, bundleSize |-> 0, fixedPricePence |-> 0, capBundles |-> 0,
     repeatable |-> TRUE]

BundleParams(bundles, bs, fp, cap, repeatable) ==
    [tiers |-> <<>>, applyBase |-> "subtotal", capAmountPence |-> 0,
     bundles |-> bundles, bundleSize |-> bs, fixedPricePence |-> fp,
     capBundles |-> cap, repeatable |-> repeatable]

Rule(id, priority, ruleType, appliesTo, constraints, ruleParams) ==
    [id |-> id, priority |-> priority, ruleType |-> ruleType, appliesTo |-> appliesTo,
     constraints |-> constraints, ruleParams |-> ruleParams]

PercentTier(minItems, percentOff) == [minItems |-> minItems, percentOff |-> percentOff]

BundleTier(bs, fp, cap) == [bundleSize |-> bs, fixedPricePence |-> fp, capBundles |-> cap]

GBP == <<"G", "B", "P">>

SeqsUpTo(S, n) == UNION {[1..k -> S] : k \in 0..n}

NoResponse == error_response(0)

BasketDoc(items) == [id |-> "b1", Basket |-> items, summary |-> <<>>]

\* The stored basket is rated.
NextRate == RateBasket(basket.id)

(***************************************************************************)
(* SpecBasket: rule selection and totals of rate_basket (C1, C2).          *)
(***************************************************************************)
MaxItems == 3

MaxRules == 2

PlainItem(pence, price, mode) ==
    Item(pence, price, mode, 12, "p1", "phone", GBP, "en-GB", NoneText)

BasketItemPool ==
    { PlainItem(<<500>>, <<4990>>, "monthly"),
      PlainItem(<<>>, <<12496>>, "monthly"),
      PlainItem(<<>>, <<>>, "annual"),
      PlainItem(<<300>>, <<>>, "annual") }

BasketRulePool ==
    { Rule("r1", 1, "TIERED_PERCENT", AppliesAll, NoConstraints,
           TieredParams(<<PercentTier(1, 10)>>, 0)),
      Rule("r2", 5, "tiered_percent", AppliesAll, NoConstraints,
           TieredParams(<<PercentTier(1, 10)>>, 0)),
      Rule("r3", 1, "TIERED_PERCENT", [AppliesAll EXCEPT !.mode = "monthly"],
           NoConstraints, TieredParams(<<PercentTier(2, 20)>>, 0)),
      Rule("r4", 3, "FIXED_PRICE_BUNDLE", AppliesAll, NoConstraints,
           BundleParams(<<>>, 2, 500, 0, TRUE)),
      Rule("r5", 9, "BOGOF", AppliesAll, NoConstraints, TieredParams(<<>>, 0)) }

InitBasket ==
    /\ rules \in SeqsUpTo(BasketRulePool, MaxRules)
    /\ basket \in {BasketDoc(items) : items \in SeqsUpTo(BasketItemPool, MaxItems)}
    /\ resp = NoResponse
    /\ AssignIdle
    /\ RateIdle
    /\ CallIdle
    /\ StoreIdle

SpecBasket == InitBasket /\ [][NextRate]_vars

Rated == resp.status = 200

ResultsOf(r) == {r.eligible_rules[i] : i \in 1..Len(r.eligible_rules)}

\* C1: the best rule is one with the greatest discount among the rules with a
\* positive discount; among the rules tied on that discount it has the
\* highest priority; and no rule is selected exactly when none has a
\* positive discount (discount 500 priority 1 against discount 500
\* priority 5 selects the priority-5 rule).
C1_BestRule ==
    /\ Rated =>
         /\ (resp.best = <<>>) <=> (\A x \in ResultsOf(resp) : ~(x.discount > 0))
         /\ resp.best # <<>> =>
              /\ resp.best[1] \in ResultsOf(resp)
              /\ resp.best[1].discount > 0
              /\ \A x \in ResultsOf(resp) :
                    /\ x.discount <= resp.best[1].discount
                    /\ x.discount = resp.best[1].discount
                          => x.priority <= resp.best[1].priority
    /\ \A first, second \in {1, 5} :
          first # second =>
             choose_best(<<[rule_id |-> "A", priority |-> first, ruleType |-> "T",
                            discount |-> 500],
                           [rule_id |-> "B", priority |-> second, ruleType |-> "T",
                            discount |-> 500]>>)[1].priority = 5

\* A rated basket where two rules tie on the greatest positive discount with
\* different priorities, the lower priority first in store order.
C1_Witness ==
    /\ Rated
    /\ resp.best # <<>>
    /\ Len(resp.eligible_rules) = 2
    /\ resp.eligible_rules[1].discount = resp.eligible_rules[2].discount
    /\ resp.eligible_rules[1].priority < resp.eligible_rules[2].priority
    /\ resp.best[1].rule_id = resp.eligible_rules[2].rule_id

\* The claim's minor-unit price of a line item, stated without the code's
\* helpers: the nearest integer to price * 100, ties to the even one.
ClaimedPence(item) ==
    IF item.rounded_price_pence # <<>> THEN item.rounded_price_pence[1]
    ELSE IF item.rounded_price # <<>>
    THEN LET m == item.rounded_price[1]
             near(n) == IF 10 * n >= m THEN 10 * n - m ELSE m - 10 * n
         IN  CHOOSE n \in (m \div 10)..(m \div 10 + 1) :
                \A k \in (m \div 10)..(m \div 10 + 1) :
                   \/ near(n) < near(k)
                   \/ (near(n) = near(k) /\ (n % 2 = 0 \/ k = n))
    ELSE 0

ClaimedSubtotal(items) ==
    LET RECURSIVE upto(_)
        upto(i) == IF i = 0 THEN 0 ELSE upto(i - 1) + ClaimedPence(items[i])
    IN  upto(Len(items))

\* C2: the subtotal is the sum of the minor-unit prices of all line items
\* and final_total = max(0, subtotal - discount of the selected rule or 0),
\* so 0 <= final_total <= subtotal (prices being non-negative); the summary
\* written to the basket carries the same numbers.
C2_Totals ==
    Rated =>
       LET d == IF resp.best = <<>> THEN 0 ELSE resp.best[1].discount
       IN  /\ resp.subtotal = ClaimedSubtotal(basket.Basket)
           /\ resp.final_total = Max(0, resp.subtotal - d)
           /\ 0 <= resp.final_total
           /\ resp.final_total <= resp.subtotal
           /\ basket.summary # <<>> =>
                 /\ basket.summary[1].subtotal = resp.subtotal
                 /\ basket.summary[1].discount = d
                 /\ basket.summary[1].final_total = resp.final_total

\* A rated basket holding an item priced by the float fallback and an item
\* with no price, a rule selected that no filter restricts to part of it.
C2_Witness ==
    /\ Rated
    /\ \E i \in 1..Len(basket.Basket) :
          /\ basket.Basket[i].rounded_price_pence = <<>>
          /\ basket.Basket[i].rounded_price # <<>>
    /\ \E i \in 1..Len(basket.Basket) :
          /\ basket.Basket[i].rounded_price_pence = <<>>
          /\ basket.Basket[i].rounded_price = <<>>
    /\ resp.best # <<>>
    /\ resp.final_total < resp.subtotal
    /\ basket.summary # <<>>

(***************************************************************************)
(* SpecBundle: one FIXED_PRICE_BUNDLE rule over a basket (C3, C4).         *)
(***************************************************************************)
MaxBundleItems == 4

MaxTiers == 2

\* The pool is not in price order; a basket takes its items in pool order,
\* one basket for each multiset of at most MaxBundleItems items.
BundleItemPool ==
    << PlainItem(<<300>>, <<>>, "monthly"),
       PlainItem(<<600>>, <<>>, "monthly"),
       PlainItem(<<>>, <<>>, "monthly"),
       PlainItem(<<500>>, <<>>, "monthly"),
       PlainItem(<<600>>, <<>>, "annual") >>

InPoolOrder(pool, k) ==
    {[i \in 1..k |-> pool[f[i]]] :
        f \in {g \in [1..k -> 1..Len(pool)] : \A i \in 1..(k - 1) : g[i] <= g[i + 1]}}

BundleBaskets == UNION {InPoolOrder(BundleItemPool, n) : n \in 0..MaxBundleItems}

BundleTierPool ==
    { BundleTier(3, 1000, 0), BundleTier(2, 1000, 0), BundleTier(2, 700, 1),
      BundleTier(2, 0, 0) }

BundleConstraints ==
    { NoConstraints,
      [NoConstraints EXCEPT !.sameModeRequired = TRUE, !.minItems = 3] }

BundleRulePool ==
    { Rule("r1", 1, "FIXED_PRICE_BUNDLE", AppliesAll, c, BundleParams(b, 0, 0, 0, rep)) :
        c \in BundleConstraints, rep \in BOOLEAN,
        b \in SeqsUpTo(BundleTierPool, MaxTiers) \ {<<>>} }
    \cup
    { Rule("r1", 1, "FIXED_PRICE_BUNDLE", AppliesAll, c,
           BundleParams(<<>>, t.bundleSize, t.fixedPricePence, t.capBundles, rep)) :
        c \in BundleConstraints, rep \in BOOLEAN, t \in BundleTierPool }

InitBundle ==
    /\ rules \in {<<r>> : r \in BundleRulePool}
    /\ basket \in {BasketDoc(items) : items \in BundleBaskets}
    /\ resp = NoResponse
    /\ AssignIdle
    /\ RateIdle
    /\ CallIdle
    /\ StoreIdle

SpecBundle == InitBundle /\ [][NextRate]_vars

\* The valid tiers of a rule in configuration order, as the claims read them.
ClaimedTiers(params) ==
    IF params.bundles # <<>>
    THEN SelectSeq(params.bundles, LAMBDA b : b.bundleSize > 0 /\ b.fixedPricePence > 0)
    ELSE IF params.bundleSize > 0 /\ params.fixedPricePence > 0
         THEN <<BundleTier(params.bundleSize, params.fixedPricePence, params.capBundles)>>
         ELSE <<>>

\* The distinct groups of the items a rule is eligible for: the classes of
\* "same key", as sets of basket positions.
ClaimedGroups(rule, items) ==
    LET eligible == {i \in 1..Len(items) : match_applies_to(rule, items[i])}
    IN  {{j \in eligible : group_key(items[j], rule.constraints)
                             = group_key(items[i], rule.constraints)} : i \in eligible}

RECURSIVE DescendingOf(_)
DescendingOf(bag) ==
    IF bag = {} THEN <<>>
    ELSE LET top == CHOOSE x \in bag : \A y \in bag : x[2] >= y[2]
         IN  <<top[2]>> \o DescendingOf(bag \ {top})

\* The prices of the items at the positions pos, highest first.
AllPricesDescending(items, pos) ==
    DescendingOf({<<i, price_pence(items[i])>> : i \in pos})

PositivePricesDescending(items, pos) ==
    DescendingOf({<<i, price_pence(items[i])>> : i \in {j \in pos : price_pence(items[j]) > 0}})

\* The greedy packing as the claim words it: take the largest-bundleSize
\* tier with cap room for which enough prices remain, bundle the next
\* bundleSize prices, start again.
RECURSIVE ClaimedGreedy(_, _, _)
ClaimedGreedy(remaining, tiers, used) ==
    LET able == {t \in 1..Len(tiers) :
                    /\ tiers[t].capBundles > 0 => used[t] < tiers[t].capBundles
                    /\ tiers[t].bundleSize <= Len(remaining)}
    IN  IF able = {} THEN 0
        ELSE LET t  == CHOOSE a \in able : \A u \in able :
                          \/ tiers[a].bundleSize > tiers[u].bundleSize
                          \/ (tiers[a].bundleSize = tiers[u].bundleSize /\ a <= u)
                 bs == tiers[t].bundleSize
             IN  Max(0, Sum(SubSeq(remaining, 1, bs)) - tiers[t].fixedPricePence)
                 + ClaimedGreedy(SubSeq(remaining, bs + 1, Len(remaining)), tiers,
                                 [used EXCEPT ![t] = @ + 1])

GroupQualifies(rule, size) ==
    LET tiers == ClaimedTiers(rule.ruleParams)
    IN  /\ size >= rule.constraints.minItems
        /\ \E t \in 1..Len(tiers) : size >= tiers[t].bundleSize

RECURSIVE SumOver(_, _)
SumOver(S, f) == IF S = {} THEN 0
                 ELSE LET x == CHOOSE y \in S : TRUE IN f[x] + SumOver(S \ {x}, f)

ClaimedRepeatableDiscount(rule, items, use_all_prices) ==
    LET tiers  == ClaimedTiers(rule.ruleParams)
        groups == {g \in ClaimedGroups(rule, items) : GroupQualifies(rule, Cardinality(g))}
    IN  SumOver(groups,
           [g \in groups |->
               ClaimedGreedy(IF use_all_prices THEN AllPricesDescending(items, g)
                             ELSE PositivePricesDescending(items, g),
                             tiers, [t \in 1..Len(tiers) |-> 0])])

RepeatableRated ==
    /\ Rated
    /\ Len(rules) = 1
    /\ rule_kind(rules[1].ruleType) = "FIXED_PRICE_BUNDLE"
    /\ rules[1].ruleParams.repeatable

\* The final loop state of each group of the rule that the code packs.
PackedGroups(rule, items) ==
    LET tiers  == bundle_tiers(rule.ruleParams)
        groups == IF tiers = <<>> THEN <<>>
                  ELSE SelectSeq(group_items(matched_items(rule, items), rule.constraints),
                          LAMBDA g : group_qualifies(g.items, tiers, rule.constraints.minItems))
    IN  [g \in 1..Len(groups) |->
            [prices |-> sorted_prices(groups[g].items),
             tiers  |-> tiers,
             final  |-> greedy_loop(sorted_prices(groups[g].items), tiers,
                                    smallest_bundle(tiers), greedy_start(tiers))]]

\* C3 as stated, over the group's prices (every item's price, an unpriced
\* item counting 0): the rule's discount is the greedy packing's.
C3_AsStated ==
    RepeatableRated =>
       resp.eligible_rules[1].discount
          = ClaimedRepeatableDiscount(rules[1], basket.Basket, TRUE)

\* C3, amended: for a repeatable FIXED_PRICE_BUNDLE rule the discount is the
\* sum over the qualifying groups of the greedy packing of the group's
\* POSITIVE prices sorted descending (largest-bundleSize tier with cap room
\* and enough remaining prices, next bundleSize prices as one bundle worth
\* max(0, sum - fixedPricePence), restart from the largest tier); the
\* bundles are consecutive disjoint blocks of the sorted prices and a tier
\* with capBundles > 0 forms at most capBundles bundles; bundleSize 2,
\* fixedPricePence 1000 and prices [600,500,400,300] give 100.
C3_GreedyPacking ==
    /\ RepeatableRated =>
         /\ resp.eligible_rules[1].discount
               = ClaimedRepeatableDiscount(rules[1], basket.Basket, FALSE)
         /\ LET packed == PackedGroups(rules[1], basket.Basket)
            IN  \A g \in 1..Len(packed) :
                  LET bits == packed[g].final.expl_bits
                  IN  /\ \A k \in 1..Len(bits) :
                            /\ bits[k].start = (IF k = 1 THEN 0
                                                ELSE bits[k - 1].start + bits[k - 1].size)
                            /\ bits[k].start + bits[k].size <= Len(packed[g].prices)
                            /\ Len(bits[k].block) = bits[k].size
                      /\ \A t \in 1..Len(packed[g].tiers) :
                            packed[g].tiers[t].capBundles > 0 =>
                               Cardinality({k \in 1..Len(bits) : bits[k].tier = t})
                                  <= packed[g].tiers[t].capBundles
    /\ apply_fixed_price_bundle(
          Rule("r1", 1, "FIXED_PRICE_BUNDLE", AppliesAll, NoConstraints,
               BundleParams(<<>>, 2, 1000, 0, TRUE)),
          <<PlainItem(<<600>>, <<>>, "monthly"), PlainItem(<<500>>, <<>>, "monthly"),
            PlainItem(<<400>>, <<>>, "monthly"), PlainItem(<<300>>, <<>>, "monthly")>>) = 100

\* A repeatable rule rated on a basket that holds an unpriced item, whose
\* group is packed with a bundle of a capped tier that gives a discount.
C3_Witness ==
    /\ RepeatableRated
    /\ resp.eligible_rules[1].discount > 0
    /\ \E i \in 1..Len(basket.Basket) : price_pence(basket.Basket[i]) = 0
    /\ LET packed == PackedGroups(rules[1], basket.Basket)
       IN  \E g \in 1..Len(packed) :
              LET bits == packed[g].final.expl_bits
              IN  /\ Len(bits) >= 1
                  /\ Len(packed[g].tiers) = 2
                  /\ packed[g].tiers[bits[1].tier].capBundles > 0
                  /\ bits[1].disc > 0

SingleRated ==
    /\ Rated
    /\ Len(rules) = 1
    /\ rule_kind(rules[1].ruleType) = "FIXED_PRICE_BUNDLE"
    /\ ~rules[1].ruleParams.repeatable

\* max over the tiers t with bundleSize_t <= number of priced items of
\* max(0, sum of the bundleSize_t highest prices - fixedPricePence_t); 0 when
\* no tier fits.
ClaimedSingleBest(prices, tiers) ==
    LET fit    == {t \in 1..Len(tiers) : tiers[t].bundleSize <= Len(prices)}
        amount == {Max(0, Sum(SubSeq(prices, 1, tiers[t].bundleSize))
                          - tiers[t].fixedPricePence) : t \in fit} \cup {0}
    IN  CHOOSE a \in amount : \A b \in amount : a >= b

\* C4: for a non-repeatable FIXED_PRICE_BUNDLE rule the discount is the sum
\* over the qualifying groups of the largest single-tier discount on the
\* group's top prices, each tier evaluated once.
C4_SingleBestTier ==
    SingleRated =>
       LET tiers  == ClaimedTiers(rules[1].ruleParams)
           groups == {g \in ClaimedGroups(rules[1], basket.Basket) :
                         GroupQualifies(rules[1], Cardinality(g))}
       IN  resp.eligible_rules[1].discount
              = SumOver(groups,
                   [g \in groups |->
                      ClaimedSingleBest(PositivePricesDescending(basket.Basket, g), tiers)])

\* A non-repeatable rule with two tiers that both fit the group, the smaller
\* tier giving the larger discount, which is the one applied.
C4_Witness ==
    /\ SingleRated
    /\ LET tiers  == bundle_tiers(rules[1].ruleParams)
           prices == sorted_prices(basket.Basket)
           d(t)   == Max(0, Sum(SubSeq(prices, 1, tiers[t].bundleSize))
                            - tiers[t].fixedPricePence)
       IN  /\ Len(tiers) = 2
           /\ ~rules[1].constraints.sameModeRequired
           /\ tiers[1].bundleSize <= Len(prices)
           /\ d(1) > 0
           /\ d(2) > d(1)
           /\ resp.eligible_rules[1].discount = d(2)

(***************************************************************************)
(* SpecTiered: one TIERED_PERCENT rule over a basket (C5).                 *)
(***************************************************************************)
MaxTieredItems == 5

MaxPercentTiers == 2

TieredItemPool ==
    << PlainItem(<<2000>>, <<>>, "monthly"),
       PlainItem(<<333>>, <<>>, "monthly"),
       PlainItem(<<2000>>, <<>>, "annual") >>

TieredBaskets == UNION {InPoolOrder(TieredItemPool, n) : n \in 0..MaxTieredItems}

PercentTierPool ==
    { PercentTier(3, 10), PercentTier(5, 20), PercentTier(2, 25), PercentTier(1, 0) }

TieredRulePool ==
    { Rule("r1", 1, "TIERED_PERCENT", AppliesAll, c,
           [TieredParams(t, cap) EXCEPT !.applyBase = base]) :
        c \in {NoConstraints, [NoConstraints EXCEPT !.sameModeRequired = TRUE]},
        cap \in {0, 150, 1500},
        base \in {"subtotal", "items"},
        t \in SeqsUpTo(PercentTierPool, MaxPercentTiers) }

InitTiered ==
    /\ rules \in {<<r>> : r \in TieredRulePool}
    /\ basket \in {BasketDoc(items) : items \in TieredBaskets}
    /\ resp = NoResponse
    /\ AssignIdle
    /\ RateIdle
    /\ CallIdle
    /\ StoreIdle

SpecTiered == InitTiered /\ [][NextRate]_vars

TieredRated ==
    /\ Rated
    /\ Len(rules) = 1
    /\ rule_kind(rules[1].ruleType) = "TIERED_PERCENT"
    /\ rules[1].ruleParams.applyBase = "subtotal"

\* The highest percentOff among the tiers whose minItems the count meets.
ClaimedPercent(tiers, count) ==
    LET offs == {tiers[t].percentOff : t \in {u \in 1..Len(tiers) : tiers[u].minItems <= count}}
                \cup {0}
    IN  CHOOSE a \in offs : \A b \in offs : a >= b

ClaimedTieredDiscount(rule, items) ==
    LET groups == ClaimedGroups(rule, items)
        raw    == SumOver(groups,
                     [g \in groups |->
                        (SumOver(g, [i \in g |-> price_pence(items[i])])
                           * ClaimedPercent(rule.ruleParams.tiers, Cardinality(g))) \div 100])
        cap    == rule.ruleParams.capAmountPence
    IN  IF cap > 0 /\ raw > cap THEN cap ELSE raw

Reorderings(seq) ==
    {[i \in 1..Len(seq) |-> seq[f[i]]] :
        f \in {g \in [1..Len(seq) -> 1..Len(seq)] :
                  \A i, j \in 1..Len(seq) : i # j => g[i] # g[j]}}

FiveItemsOf2000 == [i \in 1..5 |-> PlainItem(<<2000>>, <<>>, "monthly")]

ExampleTiers == <<PercentTier(3, 10), PercentTier(5, 20)>>

\* C5: with applyBase 'subtotal' the discount of a TIERED_PERCENT rule is the
\* sum over groups of floor(group subtotal * p / 100), p the highest
\* percentOff among the tiers whose minItems <= the group's item count (0
\* when none), whatever the order of the tiers list, and exactly
\* capAmountPence when that is positive and exceeded; a 5-item group of
\* subtotal 10000 under tiers {3:10%, 5:20%} gives 2000, and 1500 under a
\* cap of 1500.
C5_TieredPercent ==
    /\ TieredRated =>
         /\ resp.eligible_rules[1].discount = ClaimedTieredDiscount(rules[1], basket.Basket)
         /\ \A t \in Reorderings(rules[1].ruleParams.tiers) :
               evaluate_rule([rules[1] EXCEPT !.ruleParams.tiers = t], basket.Basket).discount
                  = resp.eligible_rules[1].discount
    /\ apply_tiered_percent(
          Rule("r1", 1, "TIERED_PERCENT", AppliesAll, NoConstraints,
               TieredParams(ExampleTiers, 0)), FiveItemsOf2000) = 2000
    /\ apply_tiered_percent(
          Rule("r1", 1, "TIERED_PERCENT", AppliesAll, NoConstraints,
               TieredParams(ExampleTiers, 1500)), FiveItemsOf2000) = 1500

\* The claim's example as a rated basket: five items of 2000 in one group,
\* tiers {3:10%, 5:20%}, capped at 1500.
C5_Witness ==
    /\ TieredRated
    /\ basket.Basket = FiveItemsOf2000
    /\ rules[1].ruleParams.tiers = ExampleTiers
    /\ rules[1].ruleParams.capAmountPence = 1500
    /\ resp.eligible_rules[1].discount = 1500
    /\ resp.final_total = 8500

(***************************************************************************)
(* SpecApplies: one rule with appliesTo filters over a basket (C6).        *)
(***************************************************************************)
MaxFilterItems == 2

FilterBase == Item(<<1000>>, <<>>, "monthly", 12, "p1", "phone", GBP, "en-GB", <<"a", "c">>)

\* The base item with one field changed at a time, each at its own price.
FilterItemPool ==
    << FilterBase,
       [FilterBase EXCEPT !.currency = <<"g", "b", "p">>, !.rounded_price_pence = <<1100>>],
       [FilterBase EXCEPT !.currency = <<"E", "U", "R">>, !.rounded_price_pence = <<1200>>],
       [FilterBase EXCEPT !.currency = NoneText, !.rounded_price_pence = <<1300>>],
       [FilterBase EXCEPT !.client = <<"A", "c">>, !.rounded_price_pence = <<1400>>],
       [FilterBase EXCEPT !.client = <<"b", "c">>, !.rounded_price_pence = <<1500>>],
       [FilterBase EXCEPT !.client = NoneText, !.rounded_price_pence = <<1600>>],
       [FilterBase EXCEPT !.locale = "fr-FR", !.rounded_price_pence = <<1700>>],
       [FilterBase EXCEPT !.locale = NoneStr, !.rounded_price_pence = <<1800>>],
       [FilterBase EXCEPT !.product_id = "p2", !.rounded_price_pence = <<1900>>],
       [FilterBase EXCEPT !.category = "tv", !.rounded_price_pence = <<2000>>],
       [FilterBase EXCEPT !.mode = "annual", !.rounded_price_pence = <<2100>>] >>

FilterBaskets == UNION {InPoolOrder(FilterItemPool, n) : n \in 0..MaxFilterItems}

AppliesToPool ==
    [currency       : {{}, {<<"G", "b", "p">>, <<"U", "S", "D">>}},
     locale         : {{}, {"en-GB"}},
     client         : {{}, {<<"A", "C">>}},
     productIds     : {{}, {"p1"}},
     categoryGroups : {{}, {"phone"}},
     mode           : {"any", NoneStr, "monthly"}]

FilterRulePool ==
    { Rule("r1", 1, "TIERED_PERCENT", a, NoConstraints,
           TieredParams(<<PercentTier(1, 10)>>, 0)) : a \in AppliesToPool }

InitApplies ==
    /\ rules \in {<<r>> : r \in FilterRulePool}
    /\ basket \in {BasketDoc(items) : items \in FilterBaskets}
    /\ resp = NoResponse
    /\ AssignIdle
    /\ RateIdle
    /\ CallIdle
    /\ StoreIdle

SpecApplies == InitApplies /\ [][NextRate]_vars

\* Equality of two texts up to the case of their letters.
SameIgnoringCase(a, b) ==
    /\ Len(a) = Len(b)
    /\ \A i \in 1..Len(a) :
          \/ a[i] = b[i]
          \/ (a[i] # LowerChar(a[i]) /\ LowerChar(a[i]) = b[i])
          \/ (b[i] # LowerChar(b[i]) /\ LowerChar(b[i]) = a[i])

\* The claim's eligibility: every provided filter accepts the item.
ClaimedEligible(rule, item) ==
    LET f == rule.appliesTo
    IN  /\ f.currency # {} =>
              /\ item.currency # NoneText
              /\ \E x \in f.currency : SameIgnoringCase(x, item.currency)
        /\ f.client # {} =>
              /\ item.client # NoneText
              /\ \E x \in f.client : SameIgnoringCase(x, item.client)
        /\ f.locale # {} => item.locale \in f.locale
        /\ f.productIds # {} => item.product_id \in f.productIds
        /\ f.categoryGroups # {} => item.category \in f.categoryGroups
        /\ (f.mode # NoneStr /\ f.mode # "any") => item.mode = f.mode

\* C6: an item is eligible for a rule iff every provided appliesTo filter
\* accepts it (currency and client compared without regard to case, locale,
\* product_id and category by membership, mode equal unless the filter is
\* absent or 'any', an empty list accepting everything), and only the
\* eligible items count in the rule's discount.
C6_AppliesTo ==
    (Rated /\ Len(rules) = 1) =>
       LET items    == basket.Basket
           eligible == {i \in 1..Len(items) : ClaimedEligible(rules[1], items[i])}
       IN  /\ \A i \in 1..Len(items) :
                 match_applies_to(rules[1], items[i]) <=> i \in eligible
           /\ resp.eligible_rules[1].discount
                 = evaluate_rule([rules[1] EXCEPT !.appliesTo = AppliesAll],
                                 SelectSeq(items, LAMBDA it : ClaimedEligible(rules[1], it))).discount
           /\ resp.eligible_rules[1].discount
                 = (SumOver(eligible, [i \in eligible |-> price_pence(items[i])]) * 10) \div 100

\* A rated basket with one item accepted through case folding of currency
\* and client and one item refused, the discount counting only the first.
C6_Witness ==
    /\ Rated
    /\ Len(rules) = 1
    /\ rules[1].appliesTo.currency # {}
    /\ rules[1].appliesTo.client # {}
    /\ Len(basket.Basket) = 2
    /\ basket.Basket[1].currency \notin rules[1].appliesTo.currency
    /\ basket.Basket[1].client \notin rules[1].appliesTo.client
    /\ match_applies_to(rules[1], basket.Basket[1])
    /\ ~match_applies_to(rules[1], basket.Basket[2])
    /\ resp.eligible_rules[1].discount = price_pence(basket.Basket[1]) \div 10
    /\ resp.subtotal > price_pence(basket.Basket[1])

(***************************************************************************)
(* SpecGroup: one rule with grouping constraints over a basket (C7).       *)
(***************************************************************************)
MaxGroupItems == 3

GroupBase == Item(<<1000>>, <<>>, "monthly", 12, "p1", "phone", GBP, "en-GB", NoneText)

\* The base item, the four items that differ from it in one grouping field,
\* and one that differs in all four.
GroupItemPool ==
    << GroupBase,
       [GroupBase EXCEPT !.product_id = "p2"],
       [GroupBase EXCEPT !.poc = 24],
       [GroupBase EXCEPT !.mode = "annual"],
       [GroupBase EXCEPT !.category = "tv"],
       [GroupBase EXCEPT !.mode = "annual", !.poc = 24, !.product_id = "p2",
                         !.category = "tv"] >>

GroupBaskets == UNION {InPoolOrder(GroupItemPool, n) : n \in 0..MaxGroupItems}

\* The line items of a basket are distinct objects: each carries its own deviceId.
Numbered(items) == [i \in 1..Len(items) |-> [items[i] EXCEPT !.deviceId = <<"d", i>>]]

ConstraintsPool ==
    [sameModeRequired : BOOLEAN, sameTermRequired : BOOLEAN,
     sameProductIdRequired : BOOLEAN, sameCategoryRequired : BOOLEAN, minItems : {0}]

GroupRulePool ==
    { Rule("r1", 1, "TIERED_PERCENT", a, c, TieredParams(<<PercentTier(2, 10)>>, 0)) :
        a \in {AppliesAll, [AppliesAll EXCEPT !.mode = "monthly"]},
        c \in ConstraintsPool }

InitGroup ==
    /\ rules \in {<<r>> : r \in GroupRulePool}
    /\ basket \in {BasketDoc(Numbered(items)) : items \in GroupBaskets}
    /\ resp = NoResponse
    /\ AssignIdle
    /\ RateIdle
    /\ CallIdle
    /\ StoreIdle

SpecGroup == InitGroup /\ [][NextRate]_vars

\* Two items agree on every field whose constraint flag is set.
AgreeOnFlagged(c, a, b) ==
    /\ c.sameModeRequired => a.mode = b.mode
    /\ c.sameTermRequired => a.poc = b.poc
    /\ c.sameProductIdRequired => a.product_id = b.product_id
    /\ c.sameCategoryRequired => a.category = b.category

ItemsOf(group) == {group.items[i] : i \in 1..Len(group.items)}

\* C7: the groups of a rule partition its eligible items; two eligible items
\* share a group iff they agree on every flagged field; with no flag set
\* the eligible items form one group.  The discount of the rule (10% for a
\* group of two or more) is the one these groups give.
C7_Grouping ==
    (Rated /\ Len(rules) = 1) =>
       LET c        == rules[1].constraints
           eligible == matched_items(rules[1], basket.Basket)
           groups   == group_items(eligible, c)
           E        == {eligible[i] : i \in 1..Len(eligible)}
           together(a, b) == \E g \in 1..Len(groups) :
                                 a \in ItemsOf(groups[g]) /\ b \in ItemsOf(groups[g])
           classes  == {{b \in E : AgreeOnFlagged(c, a, b)} : a \in E}
       IN  /\ \A a \in E : Cardinality({g \in 1..Len(groups) : a \in ItemsOf(groups[g])}) = 1
           /\ \A g \in 1..Len(groups) :
                 /\ ItemsOf(groups[g]) \subseteq E
                 /\ Len(groups[g].items) = Cardinality(ItemsOf(groups[g]))
                 /\ Len(groups[g].items) >= 1
           /\ \A a, b \in E : together(a, b) <=> AgreeOnFlagged(c, a, b)
           /\ (~c.sameModeRequired /\ ~c.sameTermRequired /\ ~c.sameProductIdRequired
                  /\ ~c.sameCategoryRequired /\ E # {}) => Len(groups) = 1
           /\ resp.eligible_rules[1].discount
                 = SumOver({k \in classes : Cardinality(k) >= 2},
                           [k \in {k \in classes : Cardinality(k) >= 2} |->
                               Cardinality(k) * 100])

\* A rated basket of three eligible items under two flags (mode and term),
\* two of them in one group and the third, differing only in term, alone.
C7_Witness ==
    /\ Rated
    /\ Len(rules) = 1
    /\ rules[1].constraints.sameModeRequired
    /\ rules[1].constraints.sameTermRequired
    /\ ~rules[1].constraints.sameProductIdRequired
    /\ Len(matched_items(rules[1], basket.Basket)) = 3
    /\ basket.Basket[1].poc = basket.Basket[2].poc
    /\ basket.Basket[1].product_id # basket.Basket[2].product_id
    /\ basket.Basket[3].poc # basket.Basket[1].poc
    /\ Len(group_items(matched_items(rules[1], basket.Basket), rules[1].constraints)) = 2
    /\ resp.eligible_rules[1].discount = 200

(***************************************************************************)
(* routers/product_assignment.py: POST /product_assignment.                *)
(* Strings that are only compared are atomic; purchase_date, which is      *)
(* parsed, is a sequence of characters.  Prices are whole currency units.  *)
(***************************************************************************)
Digit(c) ==
    CASE c = "0" -> 0 [] c = "1" -> 1 [] c = "2" -> 2 [] c = "3" -> 3
      [] c = "4" -> 4 [] c = "5" -> 5 [] c = "6" -> 6 [] c = "7" -> 7
      [] c = "8" -> 8 [] c = "9" -> 9

IsLeapYear(y) == (y % 4 = 0 /\ y % 100 # 0) \/ y % 400 = 0

DaysInMonth(y, m) ==
    IF m = 2 THEN (IF IsLeapYear(y) THEN 29 ELSE 28)
    ELSE IF m \in {4, 6, 9, 11} THEN 30 ELSE 31

\* datetime.strptime(s, "%Y-%m-%d") on a zero-padded date
strptime(s) ==
    [year  |-> 1000 * Digit(s[1]) + 100 * Digit(s[2]) + 10 * Digit(s[3]) + Digit(s[4]),
     month |-> 10 * Digit(s[6]) + Digit(s[7]),
     day   |-> 10 * Digit(s[9]) + Digit(s[10])]

\* datetime.utcnow(), as a date
utcnow == clock

\* The age without the day test: whole calendar months only.
calculate_age_in_months_no_day_test(purchase_date) ==
    LET purchase_dt == strptime(purchase_date)
        now         == utcnow
    IN  Max((now.year - purchase_dt.year) * 12 + (now.month - purchase_dt.month), 0)

\* The age with the day test turned round.
calculate_age_in_months_day_test_reversed(purchase_date) ==
    LET purchase_dt == strptime(purchase_date)
        now         == utcnow
        age_months  == (now.year - purchase_dt.year) * 12 + (now.month - purchase_dt.month)
    IN  Max(IF now.day > purchase_dt.day THEN age_months - 1 ELSE age_months, 0)

calculate_age_in_months(purchase_date) ==
    LET purchase_dt == strptime(purchase_date)
        now         == utcnow
        age_months  == (now.year - purchase_dt.year) * 12 + (now.month - purchase_dt.month)
    IN  Max(IF now.day < purchase_dt.day THEN age_months - 1 ELSE age_months, 0)

\* str.strip() on the field values the requests carry
str_strip(s) == IF s = " " THEN "" ELSE s

\* The price range with an exclusive upper bound.
criteria_failure_reasons_exclusive_high(crit, locale, gtee, age_in_months, price, currency) ==
    (IF locale \notin crit.locale THEN <<"locale">> ELSE <<>>)
    \o (IF gtee \notin crit.guaranteeDuration THEN <<"gtee">> ELSE <<>>)
    \o (IF ~(crit.monthsLow <= age_in_months /\ age_in_months <= crit.monthsHigh)
        THEN <<"age_in_months">> ELSE <<>>)
    \o (IF ~(crit.msrpLow <= price /\ price < crit.msrpHigh) THEN <<"price">> ELSE <<>>)
    \o (IF currency \notin crit.currency THEN <<"currency">> ELSE <<>>)

\* The reasons are kept as the name of the predicate that failed, in the
\* order the code appends them.
criteria_failure_reasons(crit, locale, gtee, age_in_months, price, currency) ==
    (IF locale \notin crit.locale THEN <<"locale">> ELSE <<>>)
    \o (IF gtee \notin crit.guaranteeDuration THEN <<"gtee">> ELSE <<>>)
    \o (IF ~(crit.monthsLow <= age_in_months /\ age_in_months <= crit.monthsHigh)
        THEN <<"age_in_months">> ELSE <<>>)
    \o (IF ~(crit.msrpLow <= price /\ price <= crit.msrpHigh) THEN <<"price">> ELSE <<>>)
    \o (IF currency \notin crit.currency THEN <<"currency">> ELSE <<>>)

\* product_assignments.find({activeClient: {$elemMatch: ...}, categoryGroup: {$in: ...}})
find_assignment_docs(payload) ==
    SelectSeq(product_assignments,
              LAMBDA doc :
                  /\ [client |-> payload.client, source |-> payload.source] \in doc.activeClient
                  /\ payload.category \in doc.categoryGroup)

\* The two nested loops of find_strict_assignment, at document d and block i
\* (i counts from 1, criteria_index from 0).  `evaluated' records the blocks
\* criteria_failure_reasons was called on, in call order, and `read' that
\* the collection was queried.  The products of
\* the result are <<>> for None and <<p>> for the list p.
RECURSIVE scan_criteria(_, _, _, _, _, _, _)
scan_criteria(docs, d, i, payload, age_in_months, debug_failed, evaluated) ==
    IF d > Len(docs)
    THEN [doc_id |-> NoneStr, products |-> <<>>,
          debug_failed |-> debug_failed, evaluated |-> evaluated, read |-> TRUE]
    ELSE IF i > Len(docs[d].criteria)
    THEN scan_criteria(docs, d + 1, 1, payload, age_in_months, debug_failed, evaluated)
    ELSE LET crit    == docs[d].criteria[i]
             doc_id  == docs[d].id
             reasons == criteria_failure_reasons(crit, payload.locale, payload.gtee,
                                                 age_in_months, payload.price,
                                                 payload.currency)
             seen    == Append(evaluated, [doc_id |-> doc_id, criteria_index |-> i - 1])
         IN  IF reasons = <<>>
             THEN [doc_id |-> doc_id, products |-> <<crit.products>>,
                   debug_failed |-> debug_failed, evaluated |-> seen, read |-> TRUE]
             ELSE scan_criteria(docs, d, i + 1, payload, age_in_months,
                                Append(debug_failed,
                                       [doc_id |-> doc_id, criteria_index |-> i - 1,
                                        failure_reasons |-> reasons]),
                                seen)

\* The scan without the early return: the last matching block is reported.
find_strict_assignment_last_match(payload, age_in_months) ==
    LET docs      == find_assignment_docs(payload)
        positions == UNION {{<<d, i>> : i \in 1..Len(docs[d].criteria)} : d \in 1..Len(docs)}
        before(a, b) == a[1] < b[1] \/ (a[1] = b[1] /\ a[2] <= b[2])
        reasons(pos) == criteria_failure_reasons(docs[pos[1]].criteria[pos[2]],
                                                 payload.locale, payload.gtee, age_in_months,
                                                 payload.price, payload.currency)
        matches   == {pos \in positions : reasons(pos) = <<>>}
        full      == scan_criteria(docs, 1, 1, payload, age_in_months, <<>>, <<>>)
    IN  IF matches = {} THEN full
        ELSE LET last == CHOOSE m \in matches : \A o \in matches : before(o, m)
             IN  [doc_id |-> docs[last[1]].id,
                  products |-> <<docs[last[1]].criteria[last[2]].products>>,
                  debug_failed |-> full.debug_failed, evaluated |-> full.evaluated,
                  read |-> TRUE]

find_strict_assignment(payload, age_in_months) ==
    scan_criteria(find_assignment_docs(payload), 1, 1, payload, age_in_months, <<>>, <<>>)

\* The currency codes of the requests that match "^[A-Z]{3}$".
CurrencyCodes == {"GBP", "EUR"}

Digits == {"0", "1", "2", "3", "4", "5", "6", "7", "8", "9"}

\* Whether datetime.strptime(v, "%Y-%m-%d") parses a zero-padded text.
is_date_text(v) ==
    /\ Len(v) = 10
    /\ v[5] = "-" /\ v[8] = "-"
    /\ \A i \in {1, 2, 3, 4, 6, 7, 9, 10} : v[i] \in Digits
    /\ strptime(v).month \in 1..12
    /\ strptime(v).day \in 1..DaysInMonth(strptime(v).year, strptime(v).month)

\* The checks of the request model, made before the handler runs: the
\* currency constraint (whitespace stripped, three upper-case letters) and
\* the purchase_date validator.
request_model_errors(payload) ==
    (IF ~is_date_text(payload.purchase_date) THEN <<"purchase_date">> ELSE <<>>)
    \o (IF str_strip(payload.currency) \notin CurrencyCodes THEN <<"currency">> ELSE <<>>)

\* missing_fields without strip(): only the empty string is blank.
missing_fields_no_strip(payload) ==
    (IF payload.client = "" THEN <<"client">> ELSE <<>>)
    \o (IF payload.source = "" THEN <<"source">> ELSE <<>>)
    \o (IF payload.category = "" THEN <<"category">> ELSE <<>>)
    \o (IF payload.locale = "" THEN <<"locale">> ELSE <<>>)
    \o (IF payload.purchase_date = <<>> THEN <<"purchase_date">> ELSE <<>>)
    \o (IF payload.currency = "" THEN <<"currency">> ELSE <<>>)
    \o (IF payload.price = 0 THEN <<"price">> ELSE <<>>)
    \o (IF payload.gtee = 0 THEN <<"gtee">> ELSE <<>>)

\* ProductAssignmentRequest.missing_fields
missing_fields(payload) ==
    (IF str_strip(payload.client) = "" THEN <<"client">> ELSE <<>>)
    \o (IF str_strip(payload.source) = "" THEN <<"source">> ELSE <<>>)
    \o (IF str_strip(payload.category) = "" THEN <<"category">> ELSE <<>>)
    \o (IF str_strip(payload.locale) = "" THEN <<"locale">> ELSE <<>>)
    \o (IF payload.purchase_date = <<>> THEN <<"purchase_date">> ELSE <<>>)
    \o (IF str_strip(payload.currency) = "" THEN <<"currency">> ELSE <<>>)
    \o (IF payload.price = 0 THEN <<"price">> ELSE <<>>)
    \o (IF payload.gtee = 0 THEN <<"gtee">> ELSE <<>>)

\* The responses without the list of failed blocks.
assignment_response_bare(status, payload, found, age, error, missing) ==
    [status |-> status, input |-> payload, doc_id |-> found.doc_id,
     age_in_months |-> age, products |-> IF found.products = <<>> THEN <<>> ELSE found.products[1],
     error |-> error, details |-> <<>>, missing |-> missing,
     evaluated |-> found.evaluated, read |-> found.read]

\* The responses of the endpoint, in one shape: age_in_months is <<>> when
\* the response carries none, error is NoneStr when it carries none.
assignment_response(status, payload, found, age, error, missing) ==
    [status |-> status, input |-> payload, doc_id |-> found.doc_id,
     age_in_months |-> age, products |-> IF found.products = <<>> THEN <<>> ELSE found.products[1],
     error |-> error, details |-> found.debug_failed, missing |-> missing,
     evaluated |-> found.evaluated, read |-> found.read]

\* No call of find_strict_assignment: the collection was not read.
NothingFound ==
    [doc_id |-> NoneStr, products |-> <<>>, debug_failed |-> <<>>, evaluated |-> <<>>,
     read |-> FALSE]

MaxLog == 1

\* error_log_collection.insert_one(...) followed by the rest of the handler:
\* the insert is not guarded, so a failed insert ends the request with 500.
assignment_log_insert(error_type, payload, response) ==
    /\ Len(assign_error_log) < MaxLog
    /\ \E insert_ok \in BOOLEAN :
          IF insert_ok
          THEN /\ assign_error_log' = Append(assign_error_log, [error_type |-> error_type])
               /\ assign_resp' = response
          ELSE /\ assign_error_log' = assign_error_log
               /\ assign_resp' = assignment_response(500, payload, NothingFound, <<>>,
                                                     "Internal Server Error", <<>>)

ProductAssignment(payload) ==
    LET invalid       == request_model_errors(payload)
        missing       == missing_fields(payload)
        age_in_months == calculate_age_in_months(payload.purchase_date)
        found         == find_strict_assignment(payload, age_in_months)
    IN  /\ IF invalid # <<>>
           THEN /\ assign_resp' = assignment_response(422, payload, NothingFound, <<>>,
                                                      "RequestValidationError", invalid)
                /\ UNCHANGED assign_error_log
           ELSE IF missing # <<>>
           THEN assignment_log_insert("validation", payload,
                    assignment_response(422, payload, NothingFound, <<>>, "validation", missing))
           ELSE IF found.doc_id # NoneStr /\ found.products # <<>>
           THEN /\ assign_resp' = assignment_response(200, payload, found, <<age_in_months>>,
                                                      NoneStr, <<>>)
                /\ UNCHANGED assign_error_log
           ELSE assignment_log_insert("no_criteria_match", payload,
                    assignment_response(200, payload,
                                        [found EXCEPT !.doc_id = NoneStr, !.products = <<>>],
                                        <<>>,
                                        "No criteria matched in any ProductAssignment document.",
                                        <<>>))
        /\ UNCHANGED <<product_assignments, basketVars, rateVars, callVars, storeVars>>

(***************************************************************************)
(* SpecAssign: a ProductAssignment collection drawn from a bounded family, *)
(* and requests that vary one field of a base request at a time.           *)
(***************************************************************************)
MaxDocs == 2

CriteriaBlock(locale, gtee, monthsLow, monthsHigh, msrpLow, msrpHigh, currency) ==
    [locale |-> locale, guaranteeDuration |-> gtee, monthsLow |-> monthsLow,
     monthsHigh |-> monthsHigh, msrpLow |-> msrpLow, msrpHigh |-> msrpHigh,
     currency |-> currency, products |-> <<>>]

NarrowBlock == CriteriaBlock({"en-GB"}, {12}, 6, 12, 100, 500, {"GBP"})

\* as NarrowBlock, with the upper price bound one lower
CheapBlock == CriteriaBlock({"en-GB"}, {12}, 6, 12, 100, 499, {"GBP"})

\* the ranges a block without the four bounds has
WideBlock == CriteriaBlock({"en-GB", "fr-FR"}, {12, 24}, 0, 9999, 0, 999999, {"GBP", "EUR"})

OtherBlock == CriteriaBlock({"fr-FR"}, {24}, 13, 24, 501, 1000, {"EUR"})

AcmeWeb == {[client |-> "acme", source |-> "web"]}

\* The documents of the family: the scope they are active for, and their blocks.
AssignmentDocPool ==
    {[activeClient |-> AcmeWeb, categoryGroup |-> {"phone", "tablet"}, criteria |-> c] :
        c \in {<<>>, <<NarrowBlock>>, <<WideBlock>>, <<OtherBlock>>,
               <<NarrowBlock, WideBlock>>, <<OtherBlock, NarrowBlock>>,
               <<CheapBlock, NarrowBlock>>, <<WideBlock, NarrowBlock>>}}
    \cup {[activeClient |-> {[client |-> "acme", source |-> "store"]},
           categoryGroup |-> {"phone"}, criteria |-> <<WideBlock>>],
          [activeClient |-> AcmeWeb, categoryGroup |-> {"laptop"},
           criteria |-> <<WideBlock>>]}

AssignmentDocIds == <<"pa1", "pa2", "pa3", "pa4">>

\* The documents as stored: the _id, and on every block a products list
\* found on no other block of the collection.
Stored(docs) ==
    [d \in 1..Len(docs) |->
        [id |-> AssignmentDocIds[d],
         activeClient |-> docs[d].activeClient,
         categoryGroup |-> docs[d].categoryGroup,
         criteria |-> [i \in 1..Len(docs[d].criteria) |->
                          [docs[d].criteria[i] EXCEPT !.products = <<<<"product", d, i>>>>]]]]

Date_2024_01_15 == <<"2", "0", "2", "4", "-", "0", "1", "-", "1", "5">>

Date_2024_01_25 == <<"2", "0", "2", "4", "-", "0", "1", "-", "2", "5">>

Date_2023_07_20 == <<"2", "0", "2", "3", "-", "0", "7", "-", "2", "0">>

Date_2023_06_20 == <<"2", "0", "2", "3", "-", "0", "6", "-", "2", "0">>

Date_2024_12_01 == <<"2", "0", "2", "4", "-", "1", "2", "-", "0", "1">>

BasePayload ==
    [client |-> "acme", source |-> "web", category |-> "phone", price |-> 300,
     locale |-> "en-GB", purchase_date |-> Date_2024_01_15, gtee |-> 12, currency |-> "GBP"]

AssignmentPayloads ==
    {BasePayload}
    \cup {[BasePayload EXCEPT !.locale = v] : v \in {"fr-FR", "de-DE", ""}}
    \cup {[BasePayload EXCEPT !.gtee = v] : v \in {24, 0}}
    \cup {[BasePayload EXCEPT !.purchase_date = v] :
             v \in {Date_2024_01_25, Date_2023_07_20, Date_2023_06_20, Date_2024_12_01, <<>>}}
    \cup {[BasePayload EXCEPT !.price = v] : v \in {99, 100, 499, 500, 501, 0}}
    \cup {[BasePayload EXCEPT !.currency = v] : v \in {"EUR", " "}}
    \cup {[BasePayload EXCEPT !.client = v] : v \in {" ", "other"}}
    \cup {[BasePayload EXCEPT !.source = v] : v \in {"store", ""}}
    \cup {[BasePayload EXCEPT !.category = v] : v \in {"tablet", "watch", " "}}
    \cup {[BasePayload EXCEPT !.locale = "fr-FR", !.gtee = 24, !.purchase_date = Date_2023_06_20,
                              !.price = 501, !.currency = "EUR"]}

NoAssignment ==
    assignment_response(0, BasePayload, NothingFound, <<>>, NoneStr, <<>>)

InitAssign ==
    /\ product_assignments \in {Stored(docs) : docs \in SeqsUpTo(AssignmentDocPool, MaxDocs)}
    /\ assign_resp = NoAssignment
    /\ assign_error_log = <<>>
    /\ BasketIdle
    /\ RateIdle
    /\ CallIdle
    /\ StoreIdle

NextAssign == \E payload \in AssignmentPayloads : ProductAssignment(payload)

SpecAssign == InitAssign /\ [][NextAssign]_vars

\* A request that passed validation and was answered from the collection.
Resolved == assign_resp.status = 200

AssignmentMatched == Resolved /\ assign_resp.error = NoneStr

\* The block a (doc_id, criteria_index) pair names in the collection.
BlockAt(e) ==
    LET d == CHOOSE d \in 1..Len(product_assignments) : product_assignments[d].id = e.doc_id
    IN  product_assignments[d].criteria[e.criteria_index + 1]

AllFivePredicates(block, input, age) ==
    /\ input.locale \in block.locale
    /\ input.gtee \in block.guaranteeDuration
    /\ block.monthsLow <= age /\ age <= block.monthsHigh
    /\ block.msrpLow <= input.price /\ input.price <= block.msrpHigh
    /\ input.currency \in block.currency

RequestAge == calculate_age_in_months(assign_resp.input.purchase_date)

\* C8: in ResolveAssignment a criteria block matches a request iff all five
\* predicates hold together (locale in block.locale, guarantee duration in
\* block.guaranteeDuration, monthsLow <= age_in_months <= monthsHigh,
\* msrpLow <= price <= msrpHigh, both ranges inclusive, currency in
\* block.currency).  Of the blocks the resolver evaluated, the one whose
\* products are returned is the one that satisfies all five, and every
\* block reported as failed violates at least one of them.
C8_BlockMatch ==
    Resolved =>
        LET r  == assign_resp
            ev == r.evaluated
            is_match(k) == r.error = NoneStr /\ k = Len(ev)
            reported(k) == \E j \in 1..Len(r.details) :
                               /\ r.details[j].doc_id = ev[k].doc_id
                               /\ r.details[j].criteria_index = ev[k].criteria_index
        IN  /\ \A k \in 1..Len(ev) :
                  /\ is_match(k) <=> AllFivePredicates(BlockAt(ev[k]), r.input, RequestAge)
                  /\ reported(k) <=> ~AllFivePredicates(BlockAt(ev[k]), r.input, RequestAge)
            /\ r.error = NoneStr =>
                  /\ Len(ev) >= 1
                  /\ r.doc_id = ev[Len(ev)].doc_id
                  /\ r.products = BlockAt(ev[Len(ev)]).products
            /\ r.error # NoneStr => r.products = <<>>

\* A request whose price equals msrpHigh and whose age equals monthsLow of
\* the block it matched, after a block that failed on the price alone.
C8_Witness ==
    /\ AssignmentMatched
    /\ Len(assign_resp.evaluated) = 2
    /\ Len(assign_resp.details) = 1
    /\ assign_resp.details[1].failure_reasons = <<"price">>
    /\ LET block == BlockAt(assign_resp.evaluated[2])
       IN  /\ assign_resp.input.price = block.msrpHigh
           /\ RequestAge = block.monthsLow
           /\ assign_resp.products = block.products

\* Scan order: records in store-return order, then blocks in array order.
ScanPositions(input) ==
    {pos \in UNION {{<<d, i>> : i \in 1..Len(product_assignments[d].criteria)} :
                       d \in 1..Len(product_assignments)} :
        /\ [client |-> input.client, source |-> input.source]
               \in product_assignments[pos[1]].activeClient
        /\ input.category \in product_assignments[pos[1]].categoryGroup}

ScannedBefore(a, b) == a[1] < b[1] \/ (a[1] = b[1] /\ a[2] < b[2])

MatchingPositions(input) ==
    {pos \in ScanPositions(input) :
        AllFivePredicates(product_assignments[pos[1]].criteria[pos[2]], input, RequestAge)}

TraceOf(positions) ==
    {[doc_id |-> product_assignments[pos[1]].id, criteria_index |-> pos[2] - 1] :
        pos \in positions}

\* C9: when several criteria blocks match a request, ResolveAssignment
\* returns the products[] of the first matching block in scan order
\* (records in store-return order, then blocks in array order within a
\* record), and no block after the first match is evaluated.
C9_FirstMatchWins ==
    Resolved =>
        LET r  == assign_resp
            M  == MatchingPositions(r.input)
            ev == r.evaluated
        IN  IF M = {}
            THEN /\ r.error # NoneStr
                 /\ r.products = <<>>
                 /\ {ev[k] : k \in 1..Len(ev)} = TraceOf(ScanPositions(r.input))
            ELSE LET first == CHOOSE m \in M : \A o \in M : ~ScannedBefore(o, m)
                     upto  == {pos \in ScanPositions(r.input) : ~ScannedBefore(first, pos)}
                 IN  /\ r.error = NoneStr
                     /\ r.doc_id = product_assignments[first[1]].id
                     /\ r.products = product_assignments[first[1]].criteria[first[2]].products
                     /\ {ev[k] : k \in 1..Len(ev)} = TraceOf(upto)
                     /\ Len(ev) = Cardinality(upto)
                     /\ ev[Len(ev)] = [doc_id |-> product_assignments[first[1]].id,
                                       criteria_index |-> first[2] - 1]

\* Three blocks match in two records, after one block that does not: the
\* second block of the first record is returned and nothing of the second
\* record was evaluated.
C9_Witness ==
    /\ AssignmentMatched
    /\ Cardinality(MatchingPositions(assign_resp.input)) = 3
    /\ Len(product_assignments) = 2
    /\ <<1, 1>> \notin MatchingPositions(assign_resp.input)
    /\ <<1, 1>> \in ScanPositions(assign_resp.input)
    /\ assign_resp.doc_id = "pa1"
    /\ assign_resp.products = product_assignments[1].criteria[2].products
    /\ Len(assign_resp.evaluated) = 2

(***************************************************************************)
(* routers/rate_request.py: POST /rate_request.                            *)
(* locale and category, which are normalized, and the keys of the factor   *)
(* dictionaries, which are compared with str(n), are sequences of          *)
(* characters.  Money is in cents; a factor is a fraction [num, den].      *)
(***************************************************************************)
UpperCaseLetters ==
    {"A", "B", "C", "D", "E", "F", "G", "H", "I", "J", "K", "L", "M",
     "N", "O", "P", "Q", "R", "S", "T", "U", "V", "W", "X", "Y", "Z"}

LowerCaseLetters ==
    {"a", "b", "c", "d", "e", "f", "g", "h", "i", "j", "k", "l", "m",
     "n", "o", "p", "q", "r", "s", "t", "u", "v", "w", "x", "y", "z"}

\* \w of the re module
WordChars ==
    UpperCaseLetters \cup LowerCaseLetters
        \cup {"0", "1", "2", "3", "4", "5", "6", "7", "8", "9", "_"}

is_word_char(c) == c \in WordChars

\* re.sub(r'\W+', '', (s or '')).strip().lower(): what is left after the
\* substitution has no whitespace to strip.
normalize(s) ==
    str_lower(SelectSeq(s, is_word_char))

DigitChar(n) ==
    CASE n = 0 -> "0" [] n = 1 -> "1" [] n = 2 -> "2" [] n = 3 -> "3" [] n = 4 -> "4"
      [] n = 5 -> "5" [] n = 6 -> "6" [] n = 7 -> "7" [] n = 8 -> "8" [] n = 9 -> "9"

\* str(n) of an int
RECURSIVE str_int(_)
str_int(n) ==
    IF n < 0 THEN <<"-">> \o str_int(0 - n)
    ELSE IF n < 10 THEN <<DigitChar(n)>>
    ELSE str_int(n \div 10) \o <<DigitChar(n % 10)>>

\* any(priceLow <= price <= priceHigh), and the factor of the first such range
price_ranges_of(price_factor_list, price) ==
    SelectSeq(price_factor_list, LAMBDA pf : pf.priceLow <= price /\ price <= pf.priceHigh)

\* <<>> for None
find_price_factor(price_factor_list, price) ==
    LET hits == price_ranges_of(price_factor_list, price)
    IN  IF hits = <<>> THEN <<>> ELSE <<hits[1].factor>>

\* int(value) of an amount in cents, as whole units: truncation towards zero
int_of_cents(value) ==
    IF value >= 0 THEN value \div 100 ELSE 0 - ((0 - value) \div 100)

\* The function without its first test: an amount already at .49 or .99 is
\* rounded up like any other.
round_price_49_99_no_keep(value) ==
    LET cents == value % 100
        whole == int_of_cents(value)
    IN  IF cents < 49 THEN whole * 100 + 49
        ELSE IF cents < 99 THEN whole * 100 + 99
        ELSE whole * 100 + 149

\* value in cents: round(value % 1, 2) is value % 100, and a difference
\* below 0.001 between two amounts of whole cents is equality.
round_price_49_99(value) ==
    LET cents == value % 100
        whole == int_of_cents(value)
    IN  IF cents = 49 \/ cents = 99 THEN value
        ELSE IF cents < 49 THEN whole * 100 + 49
        ELSE IF cents < 99 THEN whole * 100 + 99
        ELSE whole * 100 + 149

\* the localeFactor entries whose locale normalizes to the request's
locale_entries(doc, locale) ==
    SelectSeq(doc.localeFactor, LAMBDA lf : normalize(lf.locale) = normalize(locale))

\* the categoryFactor entries whose device normalizes to the request's category
category_entries(doc, category) ==
    SelectSeq(doc.categoryFactor, LAMBDA cf : normalize(cf.device) = normalize(category))

\* The reasons are kept as the name of the field that failed, in the order
\* the code appends them; the document matched when there is none.
match_with_reasons(doc, payload) ==
    (IF doc.currency # payload.currency THEN <<"currency">> ELSE <<>>)
    \o (IF payload.product_id \notin doc.productID THEN <<"product_id">> ELSE <<>>)
    \o (IF locale_entries(doc, payload.locale) = <<>>
        THEN <<"locale">> ELSE <<>>)
    \o (IF str_int(payload.poc) \notin DOMAIN doc.pocFactor THEN <<"poc">> ELSE <<>>)
    \o (IF category_entries(doc, payload.category) = <<>>
        THEN <<"category">> ELSE <<>>)
    \o (IF str_int(payload.age) \notin DOMAIN doc.ageFactor THEN <<"age">> ELSE <<>>)
    \o (IF price_ranges_of(doc.priceFactor, payload.price) = <<>> THEN <<"price">> ELSE <<>>)
    \o (IF str_int(payload.multi_count) \notin DOMAIN doc.multiFactor
        THEN <<"multi_count">> ELSE <<>>)

\* RateRequest.missing_fields: "" or None, or a number equal to 0
rate_missing_fields(payload) ==
    (IF payload.product_id = "" THEN <<"product_id">> ELSE <<>>)
    \o (IF payload.currency = "" THEN <<"currency">> ELSE <<>>)
    \o (IF payload.locale = <<>> THEN <<"locale">> ELSE <<>>)
    \o (IF payload.poc = 0 THEN <<"poc">> ELSE <<>>)
    \o (IF payload.category = <<>> THEN <<"category">> ELSE <<>>)
    \o (IF payload.age = 0 THEN <<"age">> ELSE <<>>)
    \o (IF payload.price = 0 THEN <<"price">> ELSE <<>>)
    \o (IF payload.multi_count = 0 THEN <<"multi_count">> ELSE <<>>)

\* ratings.find({"currency": ..., "productID": {"$in": [...]}})
find_ratings(payload) ==
    SelectSeq(ratings,
              LAMBDA doc : doc.currency = payload.currency /\ payload.product_id \in doc.productID)

\* The loop with entries that keep only the first reason of a document.
RECURSIVE scan_ratings_first_reason(_, _, _, _, _)
scan_ratings_first_reason(docs, i, payload, failure_reasons, scanned) ==
    IF i > Len(docs)
    THEN [matching_doc |-> <<>>, failure_reasons |-> failure_reasons, scanned |-> scanned]
    ELSE LET reasons == match_with_reasons(docs[i], payload)
             seen    == Append(scanned, docs[i].id)
         IN  IF reasons = <<>>
             THEN [matching_doc |-> <<docs[i]>>, failure_reasons |-> failure_reasons,
                   scanned |-> seen]
             ELSE scan_ratings_first_reason(docs, i + 1, payload,
                               Append(failure_reasons,
                                      [doc_id |-> docs[i].id, reasons |-> <<reasons[1]>>]),
                               seen)

\* The loop of rate_request at document i.  matching_doc is <<>> for None
\* and <<doc>> for a document; `scanned' records the documents
\* match_with_reasons was called on, in call order.
RECURSIVE scan_ratings(_, _, _, _, _)
scan_ratings(docs, i, payload, failure_reasons, scanned) ==
    IF i > Len(docs)
    THEN [matching_doc |-> <<>>, failure_reasons |-> failure_reasons, scanned |-> scanned]
    ELSE LET reasons == match_with_reasons(docs[i], payload)
             seen    == Append(scanned, docs[i].id)
         IN  IF reasons = <<>>
             THEN [matching_doc |-> <<docs[i]>>, failure_reasons |-> failure_reasons,
                   scanned |-> seen]
             ELSE scan_ratings(docs, i + 1, payload,
                               Append(failure_reasons,
                                      [doc_id |-> docs[i].id, reasons |-> reasons]),
                               seen)

\* The loop without the break: the last matching document is kept.
select_rating_last_match(payload) ==
    LET docs    == find_ratings(payload)
        matches == {i \in 1..Len(docs) : match_with_reasons(docs[i], payload) = <<>>}
        failed  == SelectSeq(docs, LAMBDA doc : match_with_reasons(doc, payload) # <<>>)
    IN  [matching_doc |-> IF matches = {} THEN <<>>
                          ELSE <<docs[CHOOSE i \in matches : \A j \in matches : j <= i]>>,
         failure_reasons |-> [k \in 1..Len(failed) |->
                                 [doc_id |-> failed[k].id,
                                  reasons |-> match_with_reasons(failed[k], payload)]],
         scanned |-> [k \in 1..Len(docs) |-> docs[k].id]]

select_rating(payload) == scan_ratings(find_ratings(payload), 1, payload, <<>>, <<>>)

\* The factors the handler reads from the matching document.
rate_factors(doc, payload) ==
    [base_fee        |-> doc.baseFee,
     locale_factor   |-> locale_entries(doc, payload.locale)[1].factor,
     poc_factor      |-> doc.pocFactor[str_int(payload.poc)],
     category_factor |-> category_entries(doc, payload.category)[1].factor,
     age_factor      |-> doc.ageFactor[str_int(payload.age)],
     price_factor    |-> find_price_factor(doc.priceFactor, payload.price)[1],
     multi_factor    |-> doc.multiFactor[str_int(payload.multi_count)]]

\* round(base_fee * locale_factor * ... * multi_factor, 2), in cents
rate_of(f) ==
    RoundHalfEven(f.base_fee * f.locale_factor.num * f.poc_factor.num * f.category_factor.num
                      * f.age_factor.num * f.price_factor.num * f.multi_factor.num,
                  f.locale_factor.den * f.poc_factor.den * f.category_factor.den
                      * f.age_factor.den * f.price_factor.den * f.multi_factor.den)

\* The responses of the endpoint, in one shape: factors, rate and
\* rounded_price are <<>> when the response carries none.
rate_response_of(status, payload, sel, factors, rate, missing) ==
    [status |-> status, input |-> payload, factors |-> factors, rate |-> rate,
     rounded_price |-> IF rate = <<>> THEN <<>> ELSE <<round_price_49_99(rate[1])>>,
     details |-> sel.failure_reasons, missing |-> missing,
     matching_doc |-> IF sel.matching_doc = <<>> THEN NoneStr ELSE sel.matching_doc[1].id,
     scanned |-> sel.scanned]

NothingScanned == [matching_doc |-> <<>>, failure_reasons |-> <<>>, scanned |-> <<>>]

\* error_log_collection.insert_one(...) followed by the raise: the insert is
\* not guarded, so a failed insert ends the request with 500.
rate_log_insert(error_type, payload, response) ==
    /\ Len(rate_error_log) < MaxLog
    /\ \E insert_ok \in BOOLEAN :
          IF insert_ok
          THEN /\ rate_error_log' = Append(rate_error_log, [error_type |-> error_type])
               /\ rate_resp' = response
          ELSE /\ rate_error_log' = rate_error_log
               /\ rate_resp' = rate_response_of(500, payload, NothingScanned, <<>>, <<>>, <<>>)

RateRequest(payload) ==
    LET missing == rate_missing_fields(payload)
        sel     == select_rating(payload)
    IN  /\ IF missing # <<>>
           THEN rate_log_insert("validation", payload,
                    rate_response_of(422, payload, NothingScanned, <<>>, <<>>, missing))
           ELSE IF sel.matching_doc = <<>>
           THEN rate_log_insert("not_found", payload,
                    rate_response_of(404, payload, sel, <<>>, <<>>, <<>>))
           ELSE LET factors == rate_factors(sel.matching_doc[1], payload)
                IN  /\ rate_resp' = rate_response_of(200, payload, sel, <<factors>>,
                                                     <<rate_of(factors)>>, <<>>)
                    /\ UNCHANGED rate_error_log
        /\ UNCHANGED <<ratings, basketVars, assignVars, callVars, storeVars>>

(***************************************************************************)
(* SpecRate: a Rating collection drawn from a bounded family, and requests *)
(* that vary one field of a base request at a time.                        *)
(***************************************************************************)
MaxRatings == 2

Factor(num, den) == [num |-> num, den |-> den]

Unit == Factor(1, 1)

\* matches BaseRateRequest on every predicate
BaseRating ==
    [currency |-> "GBP", productID |-> {"p1", "p2"}, baseFee |-> 1000,
     localeFactor |-> <<[locale |-> <<"e", "n", "-", "G", "B">>, factor |-> Unit],
                        [locale |-> <<"f", "r", "-", "F", "R">>, factor |-> Factor(11, 10)]>>,
     pocFactor |-> [k \in {<<"1", "2">>, <<"2", "4">>} |->
                       IF k = <<"1", "2">> THEN Unit ELSE Factor(5, 4)],
     categoryFactor |-> <<[device |-> <<"P", "h", "o", "n", "e">>, factor |-> Factor(3, 2)]>>,
     ageFactor |-> [k \in {<<"6">>, <<"1", "2">>} |->
                       IF k = <<"6">> THEN Unit ELSE Factor(6, 5)],
     priceFactor |-> <<[priceLow |-> 0, priceHigh |-> 500, factor |-> Unit],
                       [priceLow |-> 501, priceHigh |-> 1000, factor |-> Factor(11, 10)]>>,
     multiFactor |-> [k \in {<<"1">>, <<"2">>} |->
                         IF k = <<"1">> THEN Unit ELSE Factor(9, 10)]]

\* BaseRating, a second document like it at another fee, and the documents
\* that differ from it in the one field a predicate reads.
RatingPool ==
    {BaseRating,
     [BaseRating EXCEPT !.baseFee = 2333,
                        !.categoryFactor = <<[device |-> <<"p", "h", "o", "n", "e">>,
                                              factor |-> Unit]>>],
     [BaseRating EXCEPT !.productID = {"p2"}],
     [BaseRating EXCEPT !.localeFactor = <<[locale |-> <<"f", "r", "-", "F", "R">>,
                                            factor |-> Unit]>>],
     [BaseRating EXCEPT !.pocFactor = [k \in {<<"2", "4">>} |-> Unit]],
     [BaseRating EXCEPT !.categoryFactor = <<[device |-> <<"T", "a", "b", "l", "e", "t">>,
                                              factor |-> Unit]>>],
     [BaseRating EXCEPT !.ageFactor = [k \in {<<"0", "6">>} |-> Unit]],
     [BaseRating EXCEPT !.priceFactor = <<[priceLow |-> 501, priceHigh |-> 1000,
                                           factor |-> Unit]>>],
     [BaseRating EXCEPT !.multiFactor = [k \in {<<"2">>} |-> Unit]]}

RatingIds == <<"rt1", "rt2", "rt3", "rt4">>

\* The documents as stored, with their _id.
StoredRatings(docs) ==
    [d \in 1..Len(docs) |->
        [id |-> RatingIds[d], currency |-> docs[d].currency, productID |-> docs[d].productID,
         baseFee |-> docs[d].baseFee, localeFactor |-> docs[d].localeFactor,
         pocFactor |-> docs[d].pocFactor, categoryFactor |-> docs[d].categoryFactor,
         ageFactor |-> docs[d].ageFactor, priceFactor |-> docs[d].priceFactor,
         multiFactor |-> docs[d].multiFactor]]

BaseRateRequest ==
    [product_id |-> "p1", currency |-> "GBP", locale |-> <<"e", "n", "-", "G", "B">>,
     poc |-> 12, category |-> <<"p", "h", "o", "n", "e">>, age |-> 6, price |-> 300,
     multi_count |-> 1]

RateRequests ==
    {BaseRateRequest}
    \cup {[BaseRateRequest EXCEPT !.product_id = v] : v \in {"p2", ""}}
    \cup {[BaseRateRequest EXCEPT !.currency = v] : v \in {"EUR"}}
    \cup {[BaseRateRequest EXCEPT !.locale = v] :
             v \in {<<"E", "N", " ", "g", "b">>, <<"e", "n", "_", "G", "B">>, <<>>}}
    \cup {[BaseRateRequest EXCEPT !.poc = v] : v \in {24, 0}}
    \cup {[BaseRateRequest EXCEPT !.category = v] :
             v \in {<<"P", "h", "o", "n", "e", ".">>, <<"t", "a", "b", "l", "e", "t">>,
                    <<" ">>}}
    \cup {[BaseRateRequest EXCEPT !.age = v] : v \in {12}}
    \cup {[BaseRateRequest EXCEPT !.price = v] : v \in {500, 501}}
    \cup {[BaseRateRequest EXCEPT !.multi_count = v] : v \in {2}}

NoRate == rate_response_of(0, BaseRateRequest, NothingScanned, <<>>, <<>>, <<>>)

InitRate ==
    /\ ratings \in {StoredRatings(docs) : docs \in SeqsUpTo(RatingPool, MaxRatings)}
    /\ rate_resp = NoRate
    /\ rate_error_log = <<>>
    /\ BasketIdle
    /\ AssignIdle
    /\ CallIdle
    /\ StoreIdle

NextRateRequest == \E payload \in RateRequests : RateRequest(payload)

SpecRate == InitRate /\ [][NextRateRequest]_vars

\* A request that passed validation and was answered from the collection.
RateAnswered == rate_resp.status \in {200, 404}

\* The eight match predicates of a rating config.
SatisfiesEveryPredicate(doc, input) ==
    /\ doc.currency = input.currency
    /\ input.product_id \in doc.productID
    /\ \E k \in 1..Len(doc.localeFactor) :
          normalize(doc.localeFactor[k].locale) = normalize(input.locale)
    /\ str_int(input.poc) \in DOMAIN doc.pocFactor
    /\ \E k \in 1..Len(doc.categoryFactor) :
          normalize(doc.categoryFactor[k].device) = normalize(input.category)
    /\ str_int(input.age) \in DOMAIN doc.ageFactor
    /\ \E k \in 1..Len(doc.priceFactor) :
          /\ doc.priceFactor[k].priceLow <= input.price
          /\ input.price <= doc.priceFactor[k].priceHigh
    /\ str_int(input.multi_count) \in DOMAIN doc.multiFactor

SatisfyingRatings(input) ==
    {d \in 1..Len(ratings) : SatisfiesEveryPredicate(ratings[d], input)}

\* C10: CalculateRate prices the request with the first rating config in
\* scan order that satisfies every match predicate (currency, product id,
\* locale, poc, category, age, price range, multi-count): the fee and the
\* rate of the response are those of that config, wherever the configs that
\* fail a predicate stand in the scan, and without such a config no price
\* is returned.
C10_FirstSatisfyingConfig ==
    RateAnswered =>
        LET r == rate_resp
            S == SatisfyingRatings(r.input)
        IN  IF S = {}
            THEN r.status = 404 /\ r.rate = <<>> /\ r.rounded_price = <<>>
            ELSE LET first == CHOOSE d \in S : \A e \in S : d <= e
                     f     == rate_factors(ratings[first], r.input)
                 IN  /\ r.status = 200
                     /\ r.matching_doc = ratings[first].id
                     /\ r.factors = <<f>>
                     /\ r.factors[1].base_fee = ratings[first].baseFee
                     /\ r.rate = <<rate_of(f)>>

\* Two candidates were scanned, the first failed a predicate and the second,
\* the only one that satisfies all of them, priced the request.
C10_Witness ==
    /\ rate_resp.status = 200
    /\ Len(ratings) = 2
    /\ rate_resp.scanned = <<"rt1", "rt2">>
    /\ SatisfyingRatings(rate_resp.input) = {2}
    /\ rate_resp.matching_doc = "rt2"
    /\ rate_resp.factors[1].base_fee = ratings[2].baseFee
    /\ ratings[1].baseFee # ratings[2].baseFee

(***************************************************************************)
(* SpecRound: round_price_49_99 called on its own, on every amount of      *)
(* whole cents up to MaxPrice, and again on what it returned.              *)
(***************************************************************************)
MaxPrice == 320

\* fn_output holds the result of the call and then of the call on the result.
RoundPrice ==
    /\ Len(fn_output) < 2
    /\ fn_output' = Append(fn_output,
                           round_price_49_99(IF fn_output = <<>> THEN fn_input.value
                                             ELSE fn_output[Len(fn_output)]))
    /\ UNCHANGED <<clock, fn_input, basketVars, assignVars, rateVars, storeVars>>

InitRound ==
    /\ fn_input \in {[value |-> v] : v \in 0..MaxPrice}
    /\ fn_output = <<>>
    /\ clock = [year |-> 2024, month |-> 7, day |-> 20]
    /\ BasketIdle
    /\ AssignIdle
    /\ RateIdle
    /\ StoreIdle

SpecRound == InitRound /\ [][RoundPrice]_vars

AtBoundary(v) == v % 100 \in {49, 99}

\* C11: for every non-negative price v with two decimal places,
\* round_price_49_99(v) returns v unchanged when the cents of v are .49 or
\* .99 (so applying it twice equals applying it once), and otherwise returns
\* the smallest amount strictly greater than v whose cents are .49 or .99.
C11_RoundUp ==
    fn_output # <<>> =>
        LET v   == fn_input.value
            out == fn_output[1]
        IN  /\ AtBoundary(v) => out = v
            /\ ~AtBoundary(v) =>
                  /\ out > v
                  /\ AtBoundary(out)
                  /\ \A w \in (v + 1)..(out - 1) : ~AtBoundary(w)
            /\ Len(fn_output) = 2 => fn_output[2] = out

\* 1.50 went up to 1.99, and 1.99 stayed where it was.
C11_Witness ==
    /\ fn_input.value = 150
    /\ fn_output = <<199, 199>>

(***************************************************************************)
(* SpecAge: calculate_age_in_months called on its own, on two purchase     *)
(* dates in calendar order, at several readings of the clock.              *)
(***************************************************************************)
MaxYearsBack == 1

ClockYear == 2024

Date(y, m, d) == [year |-> y, month |-> m, day |-> d]

\* The first, the middle and the last day of every month, and the days
\* around the 20th, from MaxYearsBack years before the clock's year to its end.
PurchaseDates ==
    {Date(y, m, d) : y \in (ClockYear - MaxYearsBack)..ClockYear, m \in 1..12,
                     d \in {1, 15, 20, 21, 31}}
    \cup {Date(y, m, DaysInMonth(y, m)) : y \in (ClockYear - MaxYearsBack)..ClockYear, m \in 1..12}

ValidDates == {dt \in PurchaseDates : dt.day <= DaysInMonth(dt.year, dt.month)}

ClockReadings == {Date(ClockYear, 7, 20), Date(ClockYear, 2, 29), Date(ClockYear, 12, 31)}

NotAfter(a, b) ==
    \/ a.year < b.year
    \/ a.year = b.year /\ a.month < b.month
    \/ a.year = b.year /\ a.month = b.month /\ a.day <= b.day

\* The "%Y-%m-%d" text of a date, as the request carries it.
isoformat(dt) ==
    <<DigitChar(dt.year \div 1000), DigitChar((dt.year \div 100) % 10),
      DigitChar((dt.year \div 10) % 10), DigitChar(dt.year % 10), "-",
      DigitChar(dt.month \div 10), DigitChar(dt.month % 10), "-",
      DigitChar(dt.day \div 10), DigitChar(dt.day % 10)>>

CalculateAge ==
    /\ fn_output = <<>>
    /\ fn_output' = <<calculate_age_in_months(isoformat(fn_input.earlier)),
                      calculate_age_in_months(isoformat(fn_input.later))>>
    /\ UNCHANGED <<clock, fn_input, basketVars, assignVars, rateVars, storeVars>>

InitAge ==
    /\ clock \in ClockReadings
    /\ fn_input \in {[earlier |-> pair[1], later |-> pair[2]] :
                        pair \in {pr \in ValidDates \X ValidDates : NotAfter(pr[1], pr[2])}}
    /\ fn_output = <<>>
    /\ BasketIdle
    /\ AssignIdle
    /\ RateIdle
    /\ StoreIdle

SpecAge == InitAge /\ [][CalculateAge]_vars

ClaimedAge(purchase, now) ==
    Max(0, (now.year - purchase.year) * 12 + (now.month - purchase.month)
               - (IF now.day < purchase.day THEN 1 ELSE 0))

\* C12: calculate_age_in_months returns
\* max(0, (now.year - purchase.year)*12 + (now.month - purchase.month)
\*         - (1 if now.day < purchase.day else 0))
\* for every purchase date and evaluation date; a purchase on 2024-01-15
\* evaluated on 2024-07-20 gives 6.
C12_AgeFormula ==
    fn_output # <<>> =>
        /\ fn_output[1] = ClaimedAge(fn_input.earlier, clock)
        /\ fn_output[2] = ClaimedAge(fn_input.later, clock)
        /\ (fn_input.earlier = Date(2024, 1, 15) /\ clock = Date(2024, 7, 20))
               => fn_output[1] = 6

\* The purchase of 2024-01-15 evaluated on 2024-07-20, next to a purchase
\* later in the year than the evaluation.
C12_Witness ==
    /\ clock = Date(2024, 7, 20)
    /\ fn_input = [earlier |-> Date(2024, 1, 15), later |-> Date(2024, 9, 21)]
    /\ fn_output = <<6, 0>>

\* C13: holding the evaluation date fixed, age_in_months is a non-negative
\* integer for every valid purchase date not after it, and is non-decreasing
\* as the purchase date moves earlier: for any two valid calendar dates
\* d1 <= d2 <= now, age(d1) >= age(d2).
C13_AgeMonotone ==
    (fn_output # <<>> /\ NotAfter(fn_input.later, clock)) =>
        /\ fn_output[1] \in Nat
        /\ fn_output[2] \in Nat
        /\ fn_output[1] >= fn_output[2]

\* Two purchases of the same month on either side of the clock's day of the
\* month: the earlier one is a month older.
C13_Witness ==
    /\ clock = Date(2024, 7, 20)
    /\ fn_input = [earlier |-> Date(2024, 1, 15), later |-> Date(2024, 1, 21)]
    /\ fn_output = <<6, 5>>

(***************************************************************************)
(* Normalization in the predicates of CalculateRate (SpecRate).            *)
(***************************************************************************)
\* What is left of a text when punctuation and whitespace are dropped and
\* letter case is ignored: its letters and digits, in lower case.
LettersAndDigits(text) ==
    str_lower(SelectSeq(text, LAMBDA c : c \in (WordChars \ {"_"})))

\* Two texts that differ only in punctuation, whitespace or letter case.
SameButForPunctuationAndCase(a, b) == LettersAndDigits(a) = LettersAndDigits(b)

RatingOf(doc_id) == ratings[CHOOSE d \in 1..Len(ratings) : ratings[d].id = doc_id]

\* C14: the locale and category predicates of CalculateRate compare the
\* request value and the config entry after normalization, so two values
\* that differ only in punctuation, whitespace or letter case always match:
\* no scanned config fails on locale (category) when one of its entries
\* differs from the request's locale (category) only in that way, and the
\* factor used in the price is the one of the entry matched this way.
C14_AsStated ==
    RateAnswered =>
        LET r == rate_resp
        IN  /\ \A k \in 1..Len(r.details) :
                  LET doc     == RatingOf(r.details[k].doc_id)
                      reasons == {r.details[k].reasons[j] : j \in 1..Len(r.details[k].reasons)}
                  IN  /\ (\E e \in 1..Len(doc.localeFactor) :
                             SameButForPunctuationAndCase(doc.localeFactor[e].locale,
                                                          r.input.locale))
                             => "locale" \notin reasons
                      /\ (\E e \in 1..Len(doc.categoryFactor) :
                             SameButForPunctuationAndCase(doc.categoryFactor[e].device,
                                                          r.input.category))
                             => "category" \notin reasons
            /\ r.status = 200 =>
                  LET doc == RatingOf(r.matching_doc)
                  IN  /\ \E e \in 1..Len(doc.localeFactor) :
                            /\ SameButForPunctuationAndCase(doc.localeFactor[e].locale,
                                                            r.input.locale)
                            /\ r.factors[1].locale_factor = doc.localeFactor[e].factor
                      /\ \E e \in 1..Len(doc.categoryFactor) :
                            /\ SameButForPunctuationAndCase(doc.categoryFactor[e].device,
                                                            r.input.category)
                            /\ r.factors[1].category_factor = doc.categoryFactor[e].factor

(***************************************************************************)
(* The no-match outcome of ResolveAssignment (SpecAssign).                 *)
(***************************************************************************)
AssignmentNoMatch == Resolved /\ assign_resp.error # NoneStr

\* The k-th block of the scan.
PositionAt(input, k) ==
    CHOOSE p \in ScanPositions(input) :
        Cardinality({q \in ScanPositions(input) : ScannedBefore(q, p)}) = k - 1

FailedPredicates(block, input, age) ==
    {name \in {"locale", "gtee", "age_in_months", "price", "currency"} :
        \/ name = "locale" /\ input.locale \notin block.locale
        \/ name = "gtee" /\ input.gtee \notin block.guaranteeDuration
        \/ name = "age_in_months" /\ ~(block.monthsLow <= age /\ age <= block.monthsHigh)
        \/ name = "price" /\ ~(block.msrpLow <= input.price /\ input.price <= block.msrpHigh)
        \/ name = "currency" /\ input.currency \notin block.currency}

\* C15: when no criteria block matches, ResolveAssignment returns an empty
\* products list together with exactly one diagnostic entry per block
\* examined (identified by record id and block index, in scan order), and
\* each entry lists exactly the predicates that block failed, so every
\* entry's reason list is non-empty.  (The outcome is the one the handler
\* returns once its error-log insert has returned.)
C15_NoMatchDiagnostics ==
    Resolved =>
        LET r == assign_resp
            n == Cardinality(ScanPositions(r.input))
        IN  /\ (MatchingPositions(r.input) = {}) <=> (r.error # NoneStr)
            /\ r.error # NoneStr =>
                  /\ r.products = <<>>
                  /\ Len(r.details) = n
                  /\ \A k \in 1..n :
                        LET pos     == PositionAt(r.input, k)
                            block   == product_assignments[pos[1]].criteria[pos[2]]
                            reasons == r.details[k].failure_reasons
                            failed  == FailedPredicates(block, r.input, RequestAge)
                        IN  /\ r.details[k].doc_id = product_assignments[pos[1]].id
                            /\ r.details[k].criteria_index = pos[2] - 1
                            /\ {reasons[j] : j \in 1..Len(reasons)} = failed
                            /\ Len(reasons) = Cardinality(failed)
                            /\ reasons # <<>>

\* Three blocks of two records were examined and none matched; one failed
\* a single predicate and another all five.
C15_Witness ==
    /\ AssignmentNoMatch
    /\ Len(product_assignments) = 2
    /\ Len(assign_resp.details) = 3
    /\ assign_resp.details[3].doc_id = "pa2"
    /\ \E k \in 1..3 : Len(assign_resp.details[k].failure_reasons) = 1
    /\ \E k \in 1..3 : Len(assign_resp.details[k].failure_reasons) = 5

(***************************************************************************)
(* The not-found outcome of CalculateRate (SpecRate).                      *)
(***************************************************************************)
RateNotFound == rate_resp.status = 404

\* The documents the scan reads: those of the request's currency that list
\* its product id, in store order.
ScannedRatings(input) ==
    SelectSeq(ratings,
              LAMBDA doc : doc.currency = input.currency /\ input.product_id \in doc.productID)

FailedRatePredicates(doc, input) ==
    {name \in {"currency", "product_id", "locale", "poc", "category", "age", "price",
               "multi_count"} :
        \/ name = "currency" /\ doc.currency # input.currency
        \/ name = "product_id" /\ input.product_id \notin doc.productID
        \/ name = "locale" /\ \A e \in 1..Len(doc.localeFactor) :
                                 normalize(doc.localeFactor[e].locale) # normalize(input.locale)
        \/ name = "poc" /\ str_int(input.poc) \notin DOMAIN doc.pocFactor
        \/ name = "category" /\ \A e \in 1..Len(doc.categoryFactor) :
                                   normalize(doc.categoryFactor[e].device)
                                       # normalize(input.category)
        \/ name = "age" /\ str_int(input.age) \notin DOMAIN doc.ageFactor
        \/ name = "price" /\ \A e \in 1..Len(doc.priceFactor) :
                                ~(doc.priceFactor[e].priceLow <= input.price
                                  /\ input.price <= doc.priceFactor[e].priceHigh)
        \/ name = "multi_count" /\ str_int(input.multi_count) \notin DOMAIN doc.multiFactor}

\* C16: when no rating config satisfies all predicates, CalculateRate
\* returns a not-found outcome carrying exactly one diagnostic entry per
\* scanned document, and each entry lists exactly the predicates that
\* document failed (a non-empty list); no price is returned.  (The outcome
\* is the one the handler returns once its error-log insert has returned.)
C16_NotFoundDiagnostics ==
    RateAnswered =>
        LET r    == rate_resp
            docs == ScannedRatings(r.input)
        IN  /\ (SatisfyingRatings(r.input) = {}) <=> RateNotFound
            /\ RateNotFound =>
                  /\ r.rate = <<>> /\ r.rounded_price = <<>> /\ r.factors = <<>>
                  /\ Len(r.details) = Len(docs)
                  /\ \A k \in 1..Len(docs) :
                        LET reasons == r.details[k].reasons
                            failed  == FailedRatePredicates(docs[k], r.input)
                        IN  /\ r.details[k].doc_id = docs[k].id
                            /\ {reasons[j] : j \in 1..Len(reasons)} = failed
                            /\ Len(reasons) = Cardinality(failed)
                            /\ reasons # <<>>

\* Two documents were scanned and neither satisfied the request; one failed
\* one predicate and the other two.
C16_Witness ==
    /\ RateNotFound
    /\ Len(rate_resp.details) = 2
    /\ rate_resp.details[1].doc_id = "rt1"
    /\ rate_resp.details[2].doc_id = "rt2"
    /\ Len(rate_resp.details[1].reasons) = 1
    /\ Len(rate_resp.details[2].reasons) = 2

\* C17: every no-match outcome of ResolveAssignment, for every valid
\* request and every configuration snapshot, carries a non-empty diagnostic
\* trail (at least one examined candidate with its failed predicates): a
\* bare "not found" with an empty diagnostics list is never returned.
C17_AsStated ==
    AssignmentNoMatch =>
        /\ assign_resp.details # <<>>
        /\ \A k \in 1..Len(assign_resp.details) :
              assign_resp.details[k].failure_reasons # <<>>

(***************************************************************************)
(* Validation in ResolveAssignment (SpecAssign).                           *)
(***************************************************************************)
\* A request was answered.
AssignmentAnswered == assign_resp.status # 0

\* Empty, or whitespace only.
BlankText(v) == v = "" \/ v = " "

BlankAssignmentRequest(input) ==
    \/ BlankText(input.client) \/ BlankText(input.source) \/ BlankText(input.category)
    \/ BlankText(input.locale) \/ BlankText(input.currency)
    \/ input.purchase_date = <<>>
    \/ input.price = 0
    \/ input.gtee = 0

\* C18: ResolveAssignment rejects with a validation error, before any
\* eligibility-criteria record is read, every request in which client,
\* source, category, locale, purchase_date or currency is blank, or price
\* is 0, or guarantee duration is 0; no products and no block diagnostics
\* are produced for such a request.  (The validation error is the 422 the
\* caller gets once the handler's error-log insert has returned; a request
\* whose insert failed ends with 500, equally without a read.)
C18_ValidationFirst ==
    (AssignmentAnswered /\ BlankAssignmentRequest(assign_resp.input)) =>
        /\ assign_resp.status = 422 \/ assign_resp.error = "Internal Server Error"
        /\ assign_resp.status # 200
        /\ ~assign_resp.read
        /\ assign_resp.evaluated = <<>>
        /\ assign_resp.products = <<>>
        /\ assign_resp.details = <<>>
        /\ assign_resp.doc_id = NoneStr

\* A request with a whitespace-only category was rejected with 422 although
\* the collection holds records, and the rejection was logged.
C18_Witness ==
    /\ assign_resp.status = 422
    /\ assign_resp.input.category = " "
    /\ assign_resp.missing = <<"category">>
    /\ Len(product_assignments) = 2
    /\ product_assignments[1].criteria # <<>>
    /\ ~assign_resp.read
    /\ Len(assign_error_log) = 1
    /\ assign_error_log[1].error_type = "validation"

(***************************************************************************)
(* Validation in CalculateRate (SpecRate).                                 *)
(***************************************************************************)
RateRequestAnswered == rate_resp.status # 0

\* Empty, or whitespace only, for a text kept as its characters.
BlankChars(v) == \A i \in 1..Len(v) : v[i] = " "

BlankRateRequest(input) ==
    \/ BlankText(input.product_id) \/ BlankText(input.currency)
    \/ BlankChars(input.locale) \/ BlankChars(input.category)
    \/ input.poc = 0 \/ input.age = 0 \/ input.price = 0 \/ input.multi_count = 0

\* C19: CalculateRate rejects with a validation error, without scanning any
\* rating config, every request in which any of product_id, currency,
\* locale, category is blank or any of poc, age, price, multi_count is
\* zero.  (A request whose error-log insert failed ends with 500 instead of
\* the validation error; that is not what is at stake here.)
C19_AsStated ==
    (RateRequestAnswered /\ BlankRateRequest(rate_resp.input)) =>
        /\ rate_resp.status = 422 \/ rate_resp.status = 500
        /\ rate_resp.scanned = <<>>
        /\ rate_resp.details = <<>>
        /\ rate_resp.rate = <<>>

(***************************************************************************)
(* The write of the basket summary (SpecBasket).                           *)
(***************************************************************************)
\* The summary was not written: the write of the last call failed, as did
\* every write before it.
SummaryNotWritten == basket.summary = <<>>

\* C20: if the basket-summary write fails during RateBasket, the call still
\* completes and returns exactly the subtotal, rule results, best rule and
\* final_total it returns when the write succeeds; the write failure is
\* suppressed and nothing is retried.  Every call on the basket is answered
\* with the response computed from the basket and the rules, whether the
\* summary was written or not.
C20_WriteFailureSuppressed ==
    resp # NoResponse =>
        LET computed == rate_response(basket, rules)
        IN  /\ resp.status = 200
            /\ resp.subtotal = computed.subtotal
            /\ resp.eligible_rules = computed.eligible_rules
            /\ resp.best = computed.best
            /\ resp.final_total = computed.final_total
            /\ ~SummaryNotWritten =>
                  basket.summary = <<summary_of(computed, basket.Basket)>>

\* A basket was rated with a discount and the write of its summary failed.
C20_Witness ==
    /\ resp.status = 200
    /\ resp.best # <<>>
    /\ resp.final_total < resp.subtotal
    /\ SummaryNotWritten

(***************************************************************************)
(* The error-log insert of ResolveAssignment (SpecAssign).                 *)
(***************************************************************************)
\* C21: a failure of a diagnostic-log write (the error-log insert made on
\* validation failure or on no-match) in ResolveAssignment never propagates
\* to the caller and never blocks the response: the call still returns the
\* same validation or no-match outcome it returns when the log write
\* succeeds, whatever became of the insert.
C21_AsStated ==
    AssignmentAnswered =>
        LET r == assign_resp
        IN  /\ r.status # 500
            /\ BlankAssignmentRequest(r.input) => r.status = 422
            /\ (~BlankAssignmentRequest(r.input) /\ MatchingPositions(r.input) = {}) =>
                  /\ r.status = 200
                  /\ r.error = "No criteria matched in any ProductAssignment document."
                  /\ r.products = <<>>

(***************************************************************************)
(* SpecOrder: RateBasket as a function of the items and the rules (C23).   *)
(***************************************************************************)
MaxOrderItems == 3

MaxOrderRules == 2

OrderItemPool ==
    { PlainItem(<<500>>, <<4990>>, "monthly"),
      PlainItem(<<>>, <<12496>>, "monthly"),
      PlainItem(<<800>>, <<>>, "monthly"),
      PlainItem(<<300>>, <<>>, "annual") }

OrderRulePool ==
    { Rule("r1", 1, "TIERED_PERCENT", AppliesAll, NoConstraints,
           TieredParams(<<PercentTier(1, 10)>>, 0)),
      Rule("r3", 1, "TIERED_PERCENT", [AppliesAll EXCEPT !.mode = "monthly"],
           NoConstraints, TieredParams(<<PercentTier(2, 20)>>, 0)),
      Rule("r4", 3, "FIXED_PRICE_BUNDLE", AppliesAll, NoConstraints,
           BundleParams(<<>>, 2, 500, 0, TRUE)) }

InitOrder ==
    /\ rules \in SeqsUpTo(OrderRulePool, MaxOrderRules)
    /\ basket \in {BasketDoc(items) : items \in SeqsUpTo(OrderItemPool, MaxOrderItems)}
    /\ resp = NoResponse
    /\ AssignIdle
    /\ RateIdle
    /\ CallIdle
    /\ StoreIdle

SpecOrder == InitOrder /\ [][NextRate]_vars

SelectedDiscount(r) == IF r.best = <<>> THEN 0 ELSE r.best[1].discount

SameOutcome(a, b) ==
    /\ a.subtotal = b.subtotal
    /\ SelectedDiscount(a) = SelectedDiscount(b)
    /\ a.final_total = b.final_total

\* C23: RateBasket is a pure function of the basket's items and the active
\* rule set: for a fixed multiset of items and a fixed set of rules, the
\* returned subtotal, the selected discount and final_total are identical
\* on every evaluation and do not depend on the order of the items in the
\* basket or on the order in which the store returns the rules.
C23_OrderIndependent ==
    Rated =>
        /\ SameOutcome(rate_response(basket, rules), resp)
        /\ \A items \in Reorderings(basket.Basket) :
              SameOutcome(rate_response([basket EXCEPT !.Basket = items], rules), resp)
        /\ \A active \in Reorderings(rules) :
              SameOutcome(rate_response(basket, active), resp)

\* Three items at three prices under a bundle rule of size two and a
\* percent rule, the bundle rule giving the larger discount: in another
\* order of the items the two cheapest come first.
C23_Witness ==
    /\ Rated
    /\ Len(basket.Basket) = 3
    /\ Len(rules) = 2
    /\ price_pence(basket.Basket[1]) < price_pence(basket.Basket[2])
    /\ price_pence(basket.Basket[2]) < price_pence(basket.Basket[3])
    /\ price_pence(basket.Basket[1]) > 0
    /\ rule_kind(rules[1].ruleType) = "FIXED_PRICE_BUNDLE"
    /\ rule_kind(rules[2].ruleType) = "TIERED_PERCENT"
    /\ resp.best # <<>>
    /\ resp.best[1].rule_id = rules[1].id

(***************************************************************************)
(* SpecPacking: the size threshold and the packing of FIXED_PRICE_BUNDLE  *)
(* (C25, C26).                                                             *)
(***************************************************************************)
MaxPackItems == 5

MaxPackTiers == 2

PackItemPool ==
    << PlainItem(<<600>>, <<>>, "monthly"),
       PlainItem(<<>>, <<>>, "monthly"),
       PlainItem(<<300>>, <<>>, "monthly"),
       PlainItem(<<600>>, <<>>, "annual") >>

PackBaskets == UNION {InPoolOrder(PackItemPool, n) : n \in 0..MaxPackItems}

PackTierPool == { BundleTier(3, 1500, 0), BundleTier(2, 700, 0), BundleTier(2, 700, 1) }

PackRulePool ==
    { Rule("r1", 1, "FIXED_PRICE_BUNDLE", AppliesAll, c, BundleParams(b, 0, 0, 0, rep)) :
        c \in BundleConstraints, rep \in BOOLEAN,
        b \in SeqsUpTo(PackTierPool, MaxPackTiers) \ {<<>>} }

InitPacking ==
    /\ rules \in {<<r>> : r \in PackRulePool}
    /\ basket \in {BasketDoc(items) : items \in PackBaskets}
    /\ resp = NoResponse
    /\ AssignIdle
    /\ RateIdle
    /\ CallIdle
    /\ StoreIdle

SpecPacking == InitPacking /\ [][NextRate]_vars

BundleRated ==
    /\ Rated
    /\ Len(rules) = 1
    /\ rule_kind(rules[1].ruleType) = "FIXED_PRICE_BUNDLE"
    /\ ClaimedTiers(rules[1].ruleParams) # <<>>

\* max(constraints.minItems, smallest bundleSize among the valid tiers).
ClaimedNeed(rule) ==
    LET tiers == ClaimedTiers(rule.ruleParams)
        sizes == {tiers[t].bundleSize : t \in 1..Len(tiers)}
    IN  Max(rule.constraints.minItems, CHOOSE m \in sizes : \A n \in sizes : m <= n)

UndersizedGroups(rule, items) ==
    {g \in ClaimedGroups(rule, items) : Cardinality(g) < ClaimedNeed(rule)}

WithoutPositions(items, pos) ==
    LET keep == {i \in 1..Len(items) : i \notin pos}
        F[i \in 0..Len(items)] ==
            IF i = 0 THEN <<>>
            ELSE IF i \in keep THEN Append(F[i - 1], items[i]) ELSE F[i - 1]
    IN  F[Len(items)]

\* C25: FIXED_PRICE_BUNDLE gives no discount for a group whose item count is
\* below max(constraints.minItems, smallest bundleSize among the valid
\* tiers): the rule's discount is the one it gives with those groups' items
\* taken out of the basket, and 0 when every group is below the threshold.
\* Every bundle formed has exactly its tier's bundleSize prices, all of one
\* group and all positive.
C25_BundleThreshold ==
    BundleRated =>
        LET rule  == rules[1]
            items == basket.Basket
            small == UNION UndersizedGroups(rule, items)
        IN  /\ \A rest \in {WithoutPositions(items, small)} :
                  resp.eligible_rules[1].discount = evaluate_rule(rule, rest).discount
            /\ (\A g \in ClaimedGroups(rule, items) : Cardinality(g) < ClaimedNeed(rule))
                  => resp.eligible_rules[1].discount = 0
            /\ rule.ruleParams.repeatable =>
                 LET packed == PackedGroups(rule, items)
                 IN  \A p \in 1..Len(packed) :
                       /\ \E g \in ClaimedGroups(rule, items) :
                             /\ Cardinality(g) >= ClaimedNeed(rule)
                             /\ packed[p].prices = PositivePricesDescending(items, g)
                       /\ \A k \in 1..Len(packed[p].final.expl_bits) :
                             LET bit == packed[p].final.expl_bits[k]
                             IN  /\ Len(bit.block) = packed[p].tiers[bit.tier].bundleSize
                                 /\ bit.block = SubSeq(packed[p].prices, bit.start + 1,
                                                       bit.start + bit.size)
                                 /\ \A i \in 1..Len(bit.block) : bit.block[i] > 0

\* A repeatable rule with minItems 3 rated on a basket with a group of two
\* priced items that a size-2 tier would discount, and a group of three, one
\* of them unpriced, that is bundled with a discount.
C25_Witness ==
    /\ BundleRated
    /\ rules[1].ruleParams.repeatable
    /\ rules[1].constraints.minItems = 3
    /\ resp.eligible_rules[1].discount > 0
    /\ \E i \in 1..Len(basket.Basket) : price_pence(basket.Basket[i]) = 0
    /\ \E g \in UndersizedGroups(rules[1], basket.Basket) :
          LET prices == PositivePricesDescending(basket.Basket, g)
              tiers  == ClaimedTiers(rules[1].ruleParams)
          IN  \E t \in 1..Len(tiers) :
                /\ tiers[t].bundleSize = Len(prices)
                /\ Sum(prices) > tiers[t].fixedPricePence

\* The largest total discount of any set of disjoint bundles of the prices,
\* each bundle of a tier's bundleSize, a tier with capBundles > 0 used at
\* most capBundles times.  The lowest free position is either left out or
\* put in a bundle.
RECURSIVE BestOf(_, _, _, _)
BestOf(prices, tiers, free, used) ==
    IF free = {} THEN 0
    ELSE LET m       == CHOOSE i \in free : \A j \in free : i <= j
             able    == {t \in 1..Len(tiers) :
                            tiers[t].capBundles > 0 => used[t] < tiers[t].capBundles}
             bundles == {b \in [tier : able, at : SUBSET free] :
                            /\ m \in b.at
                            /\ Cardinality(b.at) = tiers[b.tier].bundleSize}
             worth   == {Max(0, SumOver(b.at, prices) - tiers[b.tier].fixedPricePence)
                           + BestOf(prices, tiers, free \ b.at,
                                    [used EXCEPT ![b.tier] = @ + 1]) : b \in bundles}
                        \cup {BestOf(prices, tiers, free \ {m}, used)}
         IN  CHOOSE w \in worth : \A v \in worth : w >= v

BestPacking(prices, tiers) ==
    BestOf(prices, tiers, 1..Len(prices), [t \in 1..Len(tiers) |-> 0])

OptimalRepeatableDiscount(rule, items) ==
    LET tiers  == ClaimedTiers(rule.ruleParams)
        groups == {g \in ClaimedGroups(rule, items) : GroupQualifies(rule, Cardinality(g))}
    IN  SumOver(groups,
           [g \in groups |-> BestPacking(PositivePricesDescending(items, g), tiers)])

SizeThreeThenTwo == <<BundleTier(3, 1500, 0), BundleTier(2, 700, 0)>>

\* C26: the repeatable bundle discount is the largest-first greedy packing's
\* and is not the optimum: the engine returns the greedy value in every
\* case, never more than the best assignment of disjoint bundles that
\* respects the sizes and capBundles, and for the tiers (3, 1500), (2, 700)
\* and the prices [600,600,300,300] it returns 0 where one bundle of two
\* gives 500.
C26_GreedyNotOptimal ==
    /\ RepeatableRated =>
         /\ resp.eligible_rules[1].discount
               = ClaimedRepeatableDiscount(rules[1], basket.Basket, FALSE)
         /\ resp.eligible_rules[1].discount
               <= OptimalRepeatableDiscount(rules[1], basket.Basket)
    /\ apply_fixed_price_bundle(
          Rule("r1", 1, "FIXED_PRICE_BUNDLE", AppliesAll, NoConstraints,
               BundleParams(SizeThreeThenTwo, 0, 0, 0, TRUE)),
          <<PlainItem(<<600>>, <<>>, "monthly"), PlainItem(<<600>>, <<>>, "monthly"),
            PlainItem(<<300>>, <<>>, "monthly"), PlainItem(<<300>>, <<>>, "monthly")>>) = 0
    /\ BestPacking(<<600, 600, 300, 300>>, SizeThreeThenTwo) = 500

\* A repeatable rule with a tier of three and a tier of two rated on one
\* group where the engine bundles three prices first and returns less than
\* another assignment of disjoint bundles gives.
C26_Witness ==
    /\ RepeatableRated
    /\ ~rules[1].constraints.sameModeRequired
    /\ \E a, b \in 1..Len(rules[1].ruleParams.bundles) :
          rules[1].ruleParams.bundles[a].bundleSize
             > rules[1].ruleParams.bundles[b].bundleSize
    /\ resp.eligible_rules[1].discount
          < OptimalRepeatableDiscount(rules[1], basket.Basket)
    /\ LET packed == PackedGroups(rules[1], basket.Basket)
       IN  /\ Len(packed) = 1
           /\ Len(packed[1].final.expl_bits) >= 1
           /\ packed[1].final.expl_bits[1].size = 3

(***************************************************************************)
(* SpecGreedy: the `while True` loop of the repeatable branch, one pass a  *)
(* step (C30).  fn_input holds the sorted prices and the tiers the loop    *)
(* runs over, fn_output the loop state after each pass so far.             *)
(***************************************************************************)
LoopPrices == fn_input.prices

LoopTiers == fn_input.tiers

\* The loop state the next pass starts from.
LoopState ==
    IF fn_output = <<>> THEN greedy_start(LoopTiers) ELSE fn_output[Len(fn_output)]

\* One pass of `while True`; the loop is left once a pass ends at a break.
GreedyPass ==
    /\ IF fn_output = <<>> THEN TRUE ELSE fn_output[Len(fn_output)].progressed
    /\ fn_output' = Append(fn_output,
                           greedy_pass(LoopPrices, LoopTiers,
                                       smallest_bundle(LoopTiers), LoopState))
    /\ UNCHANGED <<clock, fn_input, basketVars, assignVars, rateVars, storeVars>>

\* The groups and rules for which the repeatable branch is entered.
GreedyGroups ==
    {in \in [gitems : PackBaskets, rule : PackRulePool] :
        /\ in.rule.ruleParams.repeatable
        /\ Len(group_items(in.gitems, in.rule.constraints)) = 1
        /\ group_qualifies(in.gitems, bundle_tiers(in.rule.ruleParams),
                           in.rule.constraints.minItems)}

\* prices and tiers as the loop finds them.
GreedyInputs ==
    {[prices |-> sorted_prices(in.gitems), tiers |-> bundle_tiers(in.rule.ruleParams)] :
        in \in GreedyGroups}

InitGreedy ==
    /\ fn_input \in GreedyInputs
    /\ fn_output = <<>>
    /\ clock = [year |-> 2024, month |-> 7, day |-> 20]
    /\ BasketIdle
    /\ AssignIdle
    /\ RateIdle
    /\ StoreIdle

SpecGreedy == InitGreedy /\ [][GreedyPass]_vars

\* The loop is straight-line code of one request: a pass that can run does.
SpecGreedyFair == SpecGreedy /\ WF_vars(GreedyPass)

LoopExited == IF fn_output = <<>> THEN FALSE ELSE ~fn_output[Len(fn_output)].progressed

\* Every pass so far either formed one bundle and moved the cursor on by
\* that bundle's size, at least 1, or was the last one and formed none;
\* the cursor is never past the priced items.
CursorAdvances ==
    \A k \in 1..Len(fn_output) :
        LET before == IF k = 1 THEN greedy_start(LoopTiers) ELSE fn_output[k - 1]
            after  == fn_output[k]
        IN  /\ after.idx <= Len(LoopPrices)
            /\ after.progressed =>
                 /\ Len(after.expl_bits) = Len(before.expl_bits) + 1
                 /\ LET bit == after.expl_bits[Len(after.expl_bits)]
                    IN  /\ bit.size = LoopTiers[bit.tier].bundleSize
                        /\ bit.size >= 1
                        /\ after.idx = before.idx + bit.size
            /\ ~after.progressed =>
                 /\ k = Len(fn_output)
                 /\ after.idx = before.idx
                 /\ after.expl_bits = before.expl_bits

\* C30: the greedy bundle loop of the repeatable branch terminates: every
\* pass either forms a bundle and moves the cursor on by bundleSize >= 1 or
\* leaves the loop, the cursor never exceeds the number of priced items,
\* and the loop is left in the end.
C30_LoopTerminates == []CursorAdvances /\ <>LoopExited

\* The loop left after two bundles, a priced item remaining unbundled.
C30_Witness ==
    /\ LoopExited
    /\ Len(fn_output) = 3
    /\ LoopState.idx < Len(LoopPrices)

(***************************************************************************)
(* add_to_basket and delete_basket_item (routers/basket/__init__.py).      *)
(* A quote is [id, deviceId, client, locale, responses]; a grouped         *)
(* response is [product_id, currency, category, options]; an option is     *)
(* [poc, mode, rounded_price, rounded_price_pence].  The requests are the  *)
(* ones that add a line item (add_to_basket left at its default).  The     *)
(* storage operations that raise during a request are its `faults`.        *)
(***************************************************************************)
\* ObjectId(payload.quote_id.strip()) succeeds on these strings.
is_quote_id(s) == s \in {"q1", "q2", "q9"}

\* quotes_collection.find_one({"_id": qid})
find_quote(quote_id) == SelectSeq(quotes, LAMBDA q : q.id = quote_id)

\* next((r for r in responses if r.get("product_id") == payload.product_id), None)
find_product(quote, product_id) ==
    LET hits == SelectSeq(quote.responses, LAMBDA r : r.product_id = product_id)
    IN  IF hits = <<>> THEN <<>> ELSE <<hits[1]>>

\* Step 1 and 2 of add_to_basket: the status the checks on the quote end in,
\* 200 when they all pass.
add_validation(payload) ==
    IF ~is_quote_id(payload.quote_id) THEN 400
    ELSE IF find_quote(payload.quote_id) = <<>> THEN 404
    ELSE LET product == find_product(find_quote(payload.quote_id)[1], payload.product_id)
         IN  IF product = <<>> THEN 404
             ELSE IF payload.optionref < 0 \/ payload.optionref >= Len(product[1].options)
             THEN 400
             ELSE 200

\* Step 3: the line item, built from the quote, the product and the option.
\* It has no "client" and no "locale" key, which item.get(...) reads as None.
basket_item(payload) ==
    LET quote   == find_quote(payload.quote_id)[1]
        product == find_product(quote, payload.product_id)[1]
        option  == product.options[payload.optionref + 1]
    IN  [deviceId            |-> quote.deviceId,
         quote_id            |-> payload.quote_id,
         product_id          |-> product.product_id,
         currency            |-> product.currency,
         category            |-> product.category,
         poc                 |-> option.poc,
         mode                |-> option.mode,
         rounded_price       |-> option.rounded_price,
         rounded_price_pence |-> option.rounded_price_pence,
         locale              |-> NoneStr,
         client              |-> NoneText]

\* The $set of add_to_basket after its call of rate_basket ("persist totals
\* explicitly as a safeguard"), mode being computed from the items read then.
safeguard_summary(rb, items_now) ==
    [subtotal    |-> rb.subtotal,
     final_total |-> rb.final_total,
     discount    |-> Max(0, rb.subtotal - rb.final_total),
     best_rule   |-> rb.best,
     mode        |-> mode_summary(items_now)]

\* The document after the try block that re-rates it: the write of
\* rate_basket, then the safeguard write, each skipped when it raises.
persist_totals(doc, faults, rb) ==
    [doc EXCEPT !.summary =
        IF "safeguard_write" \notin faults THEN <<safeguard_summary(rb, doc.Basket)>>
        ELSE IF "rate_write" \notin faults THEN <<summary_of(rb, doc.Basket)>>
        ELSE doc.summary]

rerated(doc, faults) == persist_totals(doc, faults, rate_response(doc, rules))

add_response(status) == [op |-> "add", status |-> status]

MaxStoreItems == 2

MaxCreated == 1

NewIds == <<"b2", "b3">>

\* Mutant: the $push is an upsert, so an unknown basket_id leaves a basket
\* behind, and the call is still answered 404.
AddToBasket_unknown_basket_upserted(payload, faults) ==
    LET v   == add_validation(payload)
        bid == payload.basket_id
    IN  /\ resp' = NoResponse
        /\ IF v # 200
           THEN store_resp' = add_response(v) /\ UNCHANGED <<basket, created>>
           ELSE IF bid # NoneStr
           THEN IF ~is_object_id(bid)
                THEN store_resp' = add_response(400) /\ UNCHANGED <<basket, created>>
                ELSE IF "push" \in faults
                THEN store_resp' = add_response(500) /\ UNCHANGED <<basket, created>>
                ELSE IF find_basket(bid) = <<>>
                THEN /\ Len(created) < MaxCreated
                     /\ store_resp' = add_response(404)
                     /\ created' = Append(created,
                                      [id |-> bid, Basket |-> <<basket_item(payload)>>,
                                       summary |-> <<>>])
                     /\ basket' = basket
                ELSE /\ Len(find_basket(bid)[1].Basket) < MaxStoreItems
                     /\ put_basket(rerated([find_basket(bid)[1] EXCEPT
                                               !.Basket = Append(@, basket_item(payload))],
                                           faults))
                     /\ store_resp' = add_response(200)
           ELSE IF "push" \in faults
                THEN store_resp' = add_response(500) /\ UNCHANGED <<basket, created>>
                ELSE /\ Len(created) < MaxCreated
                     /\ created' = Append(created,
                                      rerated([id      |-> NewIds[Len(created) + 1],
                                               Basket  |-> <<basket_item(payload)>>,
                                               summary |-> <<>>], faults))
                     /\ basket' = basket
                     /\ store_resp' = add_response(200)
        /\ UNCHANGED <<rules, quotes, calls, assignVars, rateVars, callVars>>

\* POST /basket/add (add_to_basket), the whole request: the checks on the
\* quote, then with a basket_id the $push and the re-rating of that basket,
\* without one the insert of a new basket and its rating.  The $push and the
\* insert are not guarded (500 when they raise), the re-rating is.
AddToBasket(payload, faults) ==
    LET v   == add_validation(payload)
        bid == payload.basket_id
    IN  /\ resp' = NoResponse
        /\ IF v # 200
           THEN store_resp' = add_response(v) /\ UNCHANGED <<basket, created>>
           ELSE IF bid # NoneStr
           THEN IF ~is_object_id(bid)
                THEN store_resp' = add_response(400) /\ UNCHANGED <<basket, created>>
                ELSE IF "push" \in faults
                THEN store_resp' = add_response(500) /\ UNCHANGED <<basket, created>>
                ELSE IF find_basket(bid) = <<>>
                THEN store_resp' = add_response(404) /\ UNCHANGED <<basket, created>>
                ELSE /\ Len(find_basket(bid)[1].Basket) < MaxStoreItems
                     /\ put_basket(rerated([find_basket(bid)[1] EXCEPT
                                               !.Basket = Append(@, basket_item(payload))],
                                           faults))
                     /\ store_resp' = add_response(200)
           ELSE IF "push" \in faults
                THEN store_resp' = add_response(500) /\ UNCHANGED <<basket, created>>
                ELSE /\ Len(created) < MaxCreated
                     /\ created' = Append(created,
                                      rerated([id      |-> NewIds[Len(created) + 1],
                                               Basket  |-> <<basket_item(payload)>>,
                                               summary |-> <<>>], faults))
                     /\ basket' = basket
                     /\ store_resp' = add_response(200)
        /\ UNCHANGED <<rules, quotes, calls, assignVars, rateVars, callVars>>

\* pull_criteria: deviceId and the narrowing filters that were given; a
\* filter is <<>> or NoneStr when the query parameter is absent.
matches_pull_criteria(item, device_id, filter) ==
    /\ item.deviceId = device_id
    /\ filter.poc # <<>> => item.poc = filter.poc[1]
    /\ filter.product_id \notin {NoneStr, ""} => item.product_id = filter.product_id
    /\ filter.rounded_price_pence # <<>> =>
          item.rounded_price_pence = filter.rounded_price_pence
    /\ filter.mode \notin {NoneStr, ""} => item.mode = filter.mode
    /\ filter.quote_id \notin {NoneStr, ""} => item.quote_id = filter.quote_id

\* Mutant: only the first item that matches is removed.
pull_first_match(items, device_id, filter) ==
    LET hit == {i \in 1..Len(items) : matches_pull_criteria(items[i], device_id, filter)}
    IN  IF hit = {} THEN items
        ELSE LET first == CHOOSE i \in hit : \A j \in hit : i <= j
             IN  SubSeq(items, 1, first - 1) \o SubSeq(items, first + 1, Len(items))

\* {"$pull": {"Basket": pull_criteria}}: every array element that matches
\* the criteria is removed.
pull(items, device_id, filter) ==
    SelectSeq(items, LAMBDA it : ~matches_pull_criteria(it, device_id, filter))

delete_response(status) == [op |-> "delete", status |-> status]

\* DELETE /basket/{basket_id}/item/{device_id} (delete_basket_item): the
\* $pull, which is not guarded, and nothing else: the summary is left as
\* it was.
DeleteBasketItem(basket_id, device_id, filter, faults) ==
    /\ resp' = NoResponse
    /\ IF ~is_object_id(basket_id)
       THEN store_resp' = delete_response(400) /\ UNCHANGED <<basket, created>>
       ELSE IF "pull" \in faults
       THEN store_resp' = delete_response(500) /\ UNCHANGED <<basket, created>>
       ELSE IF find_basket(basket_id) = <<>>
       THEN store_resp' = delete_response(404) /\ UNCHANGED <<basket, created>>
       ELSE /\ put_basket([find_basket(basket_id)[1] EXCEPT
                              !.Basket = pull(@, device_id, filter)])
            /\ store_resp' = delete_response(200)
    /\ UNCHANGED <<rules, quotes, calls, assignVars, rateVars, callVars>>

(***************************************************************************)
(* SpecStore: add_to_basket, delete_basket_item and rate_basket on one     *)
(* store, one request at a time (C24, C27, C29); SpecSequential: adds and  *)
(* deletes only, no storage operation raising (C28).                       *)
(***************************************************************************)
Acme == <<"a", "c", "m", "e">>

Option(poc, mode, pence) ==
    [poc |-> poc, mode |-> mode, rounded_price |-> <<>>, rounded_price_pence |-> <<pence>>]

QuotePool ==
    << [id |-> "q1", deviceId |-> "d1", client |-> Acme, locale |-> "en-GB",
        responses |-> <<[product_id |-> "p1", currency |-> GBP, category |-> "phone",
                         options |-> <<Option(12, "monthly", 500),
                                       Option(12, "annual", 300)>>]>>] >>

\* A 50% rule for the client of the quotes and a 10% rule for everybody.
StoreRules ==
    << Rule("r1", 5, "TIERED_PERCENT", [AppliesAll EXCEPT !.client = {Acme}],
            NoConstraints, TieredParams(<<PercentTier(1, 50)>>, 0)),
       Rule("r2", 1, "TIERED_PERCENT", AppliesAll, NoConstraints,
            TieredParams(<<PercentTier(2, 10)>>, 0)) >>

AddPayload(quote_id, product_id, optionref, basket_id) ==
    [quote_id |-> quote_id, product_id |-> product_id, optionref |-> optionref,
     basket_id |-> basket_id]

AddPayloads ==
    { AddPayload("q1", "p1", o, b) : o \in 0..1, b \in {NoneStr, "b1"} }
    \cup { AddPayload("q1", "p1", 0, b) : b \in {"b9", "zz"} }
    \cup { AddPayload(q, "p1", 0, "b1") : q \in {"q9", "zz"} }
    \cup { AddPayload("q1", "p7", 0, "b1"), AddPayload("q1", "p1", 2, "b1"),
           AddPayload("q1", "p1", 2, NoneStr) }

AddFaults == {"push", "rate_write", "safeguard_write"}

NoFilter ==
    [poc |-> <<>>, product_id |-> NoneStr, rounded_price_pence |-> <<>>,
     mode |-> NoneStr, quote_id |-> NoneStr]

\* No filter, the mode alone, and all five filters of the monthly option.
DeleteFilters ==
    { NoFilter,
      [NoFilter EXCEPT !.mode = "annual"],
      [poc |-> <<12>>, product_id |-> "p1", rounded_price_pence |-> <<500>>,
       mode |-> "monthly", quote_id |-> "q1"] }

DeleteCalls ==
    { [basket_id |-> "b1", device_id |-> d, filter |-> f] :
         d \in {"d1", "d2"}, f \in DeleteFilters }
    \cup { [basket_id |-> b, device_id |-> "d1", filter |-> NoFilter] : b \in {"b9", "zz"} }

RatedIds == {"b1", "b2", "b9", "zz"}

InitStore ==
    /\ rules = StoreRules
    /\ basket = BasketDoc(<<>>)
    /\ resp = NoResponse
    /\ quotes = QuotePool
    /\ created = <<>>
    /\ store_resp = NoStoreResponse
    /\ calls = <<>>
    /\ AssignIdle
    /\ RateIdle
    /\ CallIdle

NextStore ==
    \/ \E payload \in AddPayloads, faults \in SUBSET AddFaults : AddToBasket(payload, faults)
    \/ \E d \in DeleteCalls, faults \in SUBSET {"pull"} :
          DeleteBasketItem(d.basket_id, d.device_id, d.filter, faults)
    \/ \E id \in RatedIds : RateBasket(id)

SpecStore == InitStore /\ [][NextStore]_vars

NextSequential ==
    \/ \E payload \in AddPayloads : AddToBasket(payload, {})
    \/ \E d \in DeleteCalls : DeleteBasketItem(d.basket_id, d.device_id, d.filter, {})

SpecSequential == InitStore /\ [][NextSequential]_vars

StoredBaskets == {basket} \cup {created[i] : i \in 1..Len(created)}

\* after is before with at most one element taken out.
RemovedAtMostOne(before, after) ==
    \/ after = before
    \/ \E i \in 1..Len(before) :
          after = SubSeq(before, 1, i - 1) \o SubSeq(before, i + 1, Len(before))

\* C24 as stated: a delete_basket_item call that succeeds removes at most one
\* line item from the Basket array and leaves every other line item in place
\* and in order, whatever the deviceId and the narrowing filters.
C24_AsStated ==
    [][(store_resp'.op = "delete" /\ store_resp'.status = 200)
          => RemovedAtMostOne(basket.Basket, basket'.Basket)]_vars

\* C27: an add_to_basket or rate_basket call that ends in 400 or 404
\* (malformed quote_id or basket_id, unknown quote, product absent from the
\* quote, optionref out of range, unknown basket) writes nothing: every
\* stored basket keeps its items and its summary and no basket is created.
C27_ErrorsWriteNothing ==
    [][(\/ store_resp'.op = "add" /\ store_resp'.status \in {400, 404}
        \/ resp'.status \in {400, 404})
          => (basket' = basket /\ created' = created)]_vars

\* An add_to_basket call answered 404 while the store holds a basket with a
\* line item and a summary and a basket created earlier.
C27_Witness ==
    /\ store_resp.op = "add"
    /\ store_resp.status = 404
    /\ basket.Basket # <<>>
    /\ basket.summary # <<>>
    /\ created # <<>>

\* C28 as stated: in every state of a history of add-item and delete-item
\* requests, one at a time and with no storage operation raising, a basket
\* that holds a stored summary has stored subtotal = sum of the pence of the
\* items now in its Basket array and stored final_total
\* = max(0, stored subtotal - stored discount).
C28_AsStated ==
    \A doc \in StoredBaskets :
        doc.summary # <<>> =>
            /\ doc.summary[1].subtotal = Sum(prices_of(doc.Basket))
            /\ doc.summary[1].final_total
                  = Max(0, doc.summary[1].subtotal - doc.summary[1].discount)

\* C29 as stated: every line item stored by add_to_basket carries currency,
\* locale, client, product_id, category and mode as the quote has them, and
\* a rule whose appliesTo.client or appliesTo.locale lists the quote's
\* client or locale (its other filters being open) applies to the item.
C29_AsStated ==
    \A doc \in StoredBaskets :
        \A i \in 1..Len(doc.Basket) :
            LET item    == doc.Basket[i]
                quote   == find_quote(item.quote_id)[1]
                product == find_product(quote, item.product_id)[1]
            IN  /\ item.currency = product.currency
                /\ item.category = product.category
                /\ item.product_id = product.product_id
                /\ \E o \in 1..Len(product.options) : item.mode = product.options[o].mode
                /\ item.client = quote.client
                /\ item.locale = quote.locale
                /\ \A r \in 1..Len(rules) :
                      (/\ quote.client \in rules[r].appliesTo.client
                       /\ rules[r].appliesTo.locale \in {{}, {quote.locale}}
                       /\ rules[r].appliesTo.currency = {}
                       /\ rules[r].appliesTo.productIds = {}
                       /\ rules[r].appliesTo.categoryGroups = {}
                       /\ rules[r].appliesTo.mode = "any")
                         => match_applies_to(rules[r], item)

(***************************************************************************)
(* SpecRace: add_to_basket requests on basket b1 in flight together, one   *)
(* storage operation a step (C22).  A request passed the checks on its     *)
(* quote; calls[c] is its position and what it has read so far.            *)
(***************************************************************************)
MaxCalls == 2

Call(payload) ==
    [pc |-> "start", payload |-> payload, rb |-> <<>>, items_read |-> <<>>,
     items_now |-> <<>>, rank |-> 0]

\* basket_collection.find_one_and_update({"_id": bid}, {"$push": ...})
Push(c) ==
    /\ calls[c].pc = "start"
    /\ basket' = [basket EXCEPT !.Basket = Append(@, basket_item(calls[c].payload))]
    /\ calls' = [calls EXCEPT ![c].pc = "pushed"]
    /\ UNCHANGED <<rules, resp, quotes, created, store_resp, assignVars, rateVars, callVars>>

\* rate_basket: the find_one of the basket and the response computed from it.
RateRead(c) ==
    /\ calls[c].pc = "pushed"
    /\ calls' = [calls EXCEPT ![c].pc = "rated",
                              ![c].rb = <<rate_response(basket, rules)>>,
                              ![c].items_read = basket.Basket]
    /\ UNCHANGED <<basketVars, quotes, created, store_resp, assignVars, rateVars, callVars>>

\* rate_basket: the $set of the summary computed from the items it read.
RateWrite(c) ==
    /\ calls[c].pc = "rated"
    /\ basket' = [basket EXCEPT
                     !.summary = <<summary_of(calls[c].rb[1], calls[c].items_read)>>]
    /\ calls' = [calls EXCEPT ![c].pc = "rate_written"]
    /\ UNCHANGED <<rules, resp, quotes, created, store_resp, assignVars, rateVars, callVars>>

\* doc_now = basket_collection.find_one({"_id": bid})
SafeguardRead(c) ==
    /\ calls[c].pc = "rate_written"
    /\ calls' = [calls EXCEPT ![c].pc = "reread", ![c].items_now = basket.Basket]
    /\ UNCHANGED <<basketVars, quotes, created, store_resp, assignVars, rateVars, callVars>>

\* What the request's last write stores.
last_summary(call) == safeguard_summary(call.rb[1], call.items_now)

\* Mutant: the write carries a version check and is dropped when the basket
\* no longer holds the items the totals were computed from.
SafeguardWrite_if_unchanged(c) ==
    /\ calls[c].pc = "reread"
    /\ basket' = IF basket.Basket = calls[c].items_read
                 THEN [basket EXCEPT !.summary = <<last_summary(calls[c])>>]
                 ELSE basket
    /\ calls' = [calls EXCEPT
                    ![c].pc = "done",
                    ![c].rank = 1 + Cardinality({d \in DOMAIN calls : calls[d].pc = "done"})]
    /\ store_resp' = add_response(200)
    /\ UNCHANGED <<rules, resp, quotes, created, assignVars, rateVars, callVars>>

\* The safeguard $set of add_to_basket, after which the request answers;
\* rank is the order in which the requests finished.
SafeguardWrite(c) ==
    /\ calls[c].pc = "reread"
    /\ basket' = [basket EXCEPT !.summary = <<last_summary(calls[c])>>]
    /\ calls' = [calls EXCEPT
                    ![c].pc = "done",
                    ![c].rank = 1 + Cardinality({d \in DOMAIN calls : calls[d].pc = "done"})]
    /\ store_resp' = add_response(200)
    /\ UNCHANGED <<rules, resp, quotes, created, assignVars, rateVars, callVars>>

RacePayloads == { AddPayload("q1", "p1", o, "b1") : o \in 0..1 }

InitRace ==
    /\ rules = StoreRules
    /\ basket = BasketDoc(<<>>)
    /\ resp = NoResponse
    /\ quotes = QuotePool
    /\ created = <<>>
    /\ store_resp = NoStoreResponse
    /\ calls \in [1..MaxCalls -> {Call(payload) : payload \in RacePayloads}]
    /\ AssignIdle
    /\ RateIdle
    /\ CallIdle

NextRace ==
    \/ \E c \in DOMAIN calls : Push(c)
    \/ \E c \in DOMAIN calls : RateRead(c)
    \/ \E c \in DOMAIN calls : RateWrite(c)
    \/ \E c \in DOMAIN calls : SafeguardRead(c)
    \/ \E c \in DOMAIN calls : SafeguardWrite(c)

SpecRace == InitRace /\ [][NextRace]_vars

AllDone == \A c \in DOMAIN calls : calls[c].pc = "done"

\* C22: concurrent add-item-then-re-rate requests on one basket are not
\* isolated.  Each appends its item, reads the basket, computes and writes
\* the summary on its own, no request waiting for or checking another: a
\* request that has finished appended its item, and once all have finished
\* the stored summary is the one the request that finished last wrote,
\* computed from the items that request read, whatever the basket holds.
C22_LastWriteWins ==
    /\ \A c \in DOMAIN calls :
          calls[c].pc # "start" =>
             \E i \in 1..Len(basket.Basket) :
                basket.Basket[i] = basket_item(calls[c].payload)
    /\ \A c \in DOMAIN calls :
          calls[c].pc \in {"rated", "rate_written", "reread", "done"} =>
             calls[c].rb[1].subtotal = Sum(prices_of(calls[c].items_read))
    /\ AllDone =>
          /\ Len(basket.Basket) = Cardinality(DOMAIN calls)
          /\ \E c \in DOMAIN calls :
                /\ calls[c].rank = Cardinality(DOMAIN calls)
                /\ basket.summary = <<last_summary(calls[c])>>

\* Both requests finished, the one that finished last having read the
\* basket before the other appended its item: the stored subtotal is not the
\* sum of the items in the basket.
C22_Witness ==
    /\ AllDone
    /\ \E c \in DOMAIN calls :
          /\ calls[c].rank = Cardinality(DOMAIN calls)
          /\ Len(calls[c].items_read) < Len(basket.Basket)
    /\ basket.summary # <<>>
    /\ basket.summary[1].subtotal # Sum(prices_of(basket.Basket))

====
